---- MODULE Spec2Model ----
(***************************************************************************)
(* Verification model of the "Code Nexus" teaching programs.               *)
(*                                                                         *)
(*   Spec         Pipeline Demo (annotated), src/ex2/me.py: one adapter    *)
(*                object, its stage list and its stats record.             *)
(*   SpecManager  the NexusManager of src/ex2/me.py over three adapters.   *)
(*   SpecRev1     Pipeline Demo Revision 1, src/ex2/nexus_pipeline.py.     *)
(*   SpecStreams  one stream object of a stream demo and the calls on it.  *)
(*   SpecProcessorA  the StreamProcessor of src/ex01/stream_processor.py.  *)
(*                                                                         *)
(* Python values are records of one shape, tagged with the Python type     *)
(* name: t is the tag, s the text of a str, n the number of an int / bool  *)
(* (a float is kept as its number of thousandths), items the elements of a  *)
(* list and kv the insertion-ordered (key, value) pairs of a dict.         *)
(***************************************************************************)
EXTENDS Integers, Sequences, FiniteSets, TLC

VARIABLES
    pipes,      \* adapter object -> [cls, stages, stats]      (self.stages, self.stats)
    manager,    \* NexusManager.pipelines: name -> adapter object
    calls,      \* adapter object -> how many process calls returned / raised
    streams,    \* the stream objects, in registration order (StreamProcessor.streams)
    last        \* observation of the most recent operation (result, raised failure,
                \* stage invocations, lines printed, the adapters before it)

vars == <<pipes, manager, calls, streams, last>>

(***************************************************************************)
(* Bounds                                                                  *)
(***************************************************************************)
MaxStages == 3      \* add_stage calls in one run
MaxCalls == 2       \* process / process_data calls in one run

(***************************************************************************)
(* Python values                                                           *)
(***************************************************************************)
PyNone == [t |-> "NoneType", s |-> "", n |-> 0, items |-> <<>>, kv |-> <<>>]
PyInt(i) == [t |-> "int", s |-> "", n |-> i, items |-> <<>>, kv |-> <<>>]
PyBool(b) == [t |-> "bool", s |-> "", n |-> IF b THEN 1 ELSE 0, items |-> <<>>, kv |-> <<>>]
PyFloat(milli) == [t |-> "float", s |-> "", n |-> milli, items |-> <<>>, kv |-> <<>>]
PyStr(str) == [t |-> "str", s |-> str, n |-> 0, items |-> <<>>, kv |-> <<>>]
PyList(xs) == [t |-> "list", s |-> "", n |-> 0, items |-> xs, kv |-> <<>>]
PyDict(pairs) == [t |-> "dict", s |-> "", n |-> 0, items |-> <<>>, kv |-> pairs]
KV(key, val) == [k |-> key, v |-> val]

\* bool(v): Python truthiness
Truthy(v) ==
    CASE v.t = "NoneType" -> FALSE
      [] v.t \in {"int", "bool", "float"} -> v.n # 0
      [] v.t = "str" -> v.s # ""
      [] v.t = "list" -> v.items # <<>>
      [] v.t = "dict" -> v.kv # <<>>

\* v == "<text>" for a str literal
EqualsStr(v, text) == v.t = "str" /\ v.s = text

Digit(d) == SubSeq("0123456789", d + 1, d + 1)

RECURSIVE NatToStr(_)
NatToStr(i) == IF i < 10 THEN Digit(i) ELSE NatToStr(i \div 10) \o Digit(i % 10)

\* str(int)
IntToStr(i) == IF i < 0 THEN "-" \o NatToStr(-i) ELSE NatToStr(i)

Abs(i) == IF i < 0 THEN -i ELSE i

\* the digits after the point of a number of thousandths: trailing zeros
\* dropped, one digit at least
Fraction(m) ==
    IF m % 10 # 0 THEN Digit(m \div 100) \o Digit((m \div 10) % 10) \o Digit(m % 10)
    ELSE IF m % 100 # 0 THEN Digit(m \div 100) \o Digit((m \div 10) % 10)
    ELSE Digit(m \div 100)

\* repr(float) of a value held in thousandths
FloatToStr(milli) ==
    (IF milli < 0 THEN "-" ELSE "") \o NatToStr(Abs(milli) \div 1000) \o "."
        \o Fraction(Abs(milli) % 1000)

\* the positions >= from at which sub starts in text
Occurrences(text, sub, from) ==
    {i \in from..(Len(text) - Len(sub) + 1) : SubSeq(text, i, i + Len(sub) - 1) = sub}

\* the least element of a set of positions, 0 for the empty set
FirstOf(S) == IF S = {} THEN 0 ELSE CHOOSE i \in S : \A j \in S : i <= j

\* text.find(sub, from) + 1: the first position >= from at which sub starts,
\* 0 when there is none
IndexOf(text, sub, from) == FirstOf(Occurrences(text, sub, from))

\* sub in text
Contains(text, sub) == Occurrences(text, sub, 1) # {}

RECURSIVE Split(_, _)
RECURSIVE SplitAt(_, _, _)
\* text.split(sep), sep not empty
Split(text, sep) == SplitAt(text, sep, IndexOf(text, sep, 1))
SplitAt(text, sep, i) ==
    IF i = 0 THEN <<text>>
    ELSE <<SubSeq(text, 1, i - 1)>> \o Split(SubSeq(text, i + Len(sep), Len(text)), sep)

\* text.count(sub): occurrences that do not overlap
CountIn(text, sub) == Len(Split(text, sub)) - 1

\* repr(str): single quotes unless the text holds a single quote and no double quote
StrRepr(text) ==
    IF Contains(text, "'") /\ ~Contains(text, "\"")
    THEN "\"" \o text \o "\""
    ELSE "'" \o text \o "'"

RECURSIVE Repr(_)
RECURSIVE JoinItems(_, _)
RECURSIVE JoinPairs(_, _)
\* repr(v)
Repr(v) ==
    CASE v.t = "NoneType" -> "None"
      [] v.t = "int" -> IntToStr(v.n)
      [] v.t = "bool" -> IF v.n = 1 THEN "True" ELSE "False"
      [] v.t = "float" -> FloatToStr(v.n)
      [] v.t = "str" -> StrRepr(v.s)
      [] v.t = "list" -> "[" \o JoinItems(v.items, 1) \o "]"
      [] v.t = "dict" -> "{" \o JoinPairs(v.kv, 1) \o "}"
JoinItems(xs, i) ==
    IF i > Len(xs) THEN ""
    ELSE (IF i > 1 THEN ", " ELSE "") \o Repr(xs[i]) \o JoinItems(xs, i + 1)
JoinPairs(ps, i) ==
    IF i > Len(ps) THEN ""
    ELSE (IF i > 1 THEN ", " ELSE "") \o StrRepr(ps[i].k) \o ": " \o Repr(ps[i].v)
         \o JoinPairs(ps, i + 1)

\* str(v), as an f-string renders it
Str(v) == IF v.t = "str" THEN v.s ELSE Repr(v)

HasKey(d, key) == \E i \in 1..Len(d.kv) : d.kv[i].k = key

\* d.get(key): the value, None when absent
DictGet(d, key) ==
    IF HasKey(d, key)
    THEN d.kv[CHOOSE i \in 1..Len(d.kv) : d.kv[i].k = key].v
    ELSE PyNone

\* d[key] = val: in place for a present key, appended otherwise
DictSet(d, key, val) ==
    IF HasKey(d, key)
    THEN PyDict([i \in 1..Len(d.kv) |->
                    IF d.kv[i].k = key THEN KV(key, val) ELSE d.kv[i]])
    ELSE PyDict(Append(d.kv, KV(key, val)))

(***************************************************************************)
(* Failures                                                                *)
(***************************************************************************)
NoExc == [type |-> "", msg |-> ""]
Exc(type, msg) == [type |-> type, msg |-> msg]
\* v.get(...) on a value that is no dict
NoAttribute(v, attr) ==
    Exc("AttributeError", "'" \o v.t \o "' object has no attribute '" \o attr \o "'")

Returned(val, out) == [ok |-> TRUE, val |-> val, exc |-> NoExc, out |-> out]
Raised(exc, out) == [ok |-> FALSE, val |-> PyNone, exc |-> exc, out |-> out]

(***************************************************************************)
(* Pipeline Demo (annotated): stages                                       *)
(***************************************************************************)
SENTINEL == "TRIGGER_FAILURE"

\* InputStage.process rejecting None alone ("if data is None")
InputStage_process_NoneOnly(data, now) ==
    LET out == <<"Stage 1: Input validation and parsing">>
    IN IF data.t = "NoneType"
       THEN Raised(Exc("ValueError", "Invalid data format"), out)
       ELSE Returned(PyDict(<<KV("raw_data", data),
                              KV("parsed", PyBool(TRUE)),
                              KV("timestamp", now)>>), out)

\* InputStage.process; now is the value time.time() returns
InputStage_process(data, now) ==
    LET out == <<"Stage 1: Input validation and parsing">>
    IN IF ~Truthy(data)
       THEN Raised(Exc("ValueError", "Invalid data format"), out)
       ELSE Returned(PyDict(<<KV("raw_data", data),
                              KV("parsed", PyBool(TRUE)),
                              KV("timestamp", now)>>), out)

\* TransformStage.process comparing the envelope itself with the sentinel
TransformStage_process_NoSentinel(data) ==
    LET out == <<"Stage 2: Data transformation and enrichment">>
    IN IF data.t # "dict"
       THEN Raised(NoAttribute(data, "get"), out)
       ELSE IF EqualsStr(data, SENTINEL)
       THEN Raised(Exc("RuntimeError", "Invalid data format"), out)
       ELSE Returned(DictSet(DictSet(data, "enriched", PyBool(TRUE)),
                             "metadata", PyStr("Nexus-v1.0")), out)

\* TransformStage.process
TransformStage_process(data) ==
    LET out == <<"Stage 2: Data transformation and enrichment">>
    IN IF data.t # "dict"
       THEN Raised(NoAttribute(data, "get"), out)
       ELSE IF EqualsStr(DictGet(data, "raw_data"), SENTINEL)
       THEN Raised(Exc("RuntimeError", "Invalid data format"), out)
       ELSE Returned(DictSet(DictSet(data, "enriched", PyBool(TRUE)),
                             "metadata", PyStr("Nexus-v1.0")), out)

\* OutputStage.process rendering the whole envelope
OutputStage_process_Envelope(data) ==
    LET out == <<"Stage 3: Output formatting and delivery">>
    IN IF data.t # "dict"
       THEN Raised(NoAttribute(data, "get"), out)
       ELSE Returned(PyStr("Processed result: " \o Str(data)
                           \o " [Verified by Nexus]"), out)

\* OutputStage.process
OutputStage_process(data) ==
    LET out == <<"Stage 3: Output formatting and delivery">>
    IN IF data.t # "dict"
       THEN Raised(NoAttribute(data, "get"), out)
       ELSE Returned(PyStr("Processed result: " \o Str(DictGet(data, "raw_data"))
                           \o " [Verified by Nexus]"), out)

StageKinds == {"InputStage", "TransformStage", "OutputStage"}

\* stage.process(current_data): dispatch on the stage object's class
Stage_process(kind, data, now) ==
    CASE kind = "InputStage" -> InputStage_process(data, now)
      [] kind = "TransformStage" -> TransformStage_process(data)
      [] kind = "OutputStage" -> OutputStage_process(data)

\* one entry of the record of stage invocations of a call
Invocation(i, kind, arg, r) ==
    [index |-> i, kind |-> kind, arg |-> arg, ok |-> r.ok, val |-> r.val, exc |-> r.exc]

RECURSIVE RunStages(_, _, _, _, _, _)
RECURSIVE RunStagesAfter(_, _, _, _, _, _, _)
\* for stage in self.stages: current_data = stage.process(current_data)
\* from stage i on; a raising stage ends the loop
RunStages(stages, i, current_data, times, trace, out) ==
    IF i > Len(stages)
    THEN [ok |-> TRUE, val |-> current_data, exc |-> NoExc, trace |-> trace, out |-> out]
    ELSE RunStagesAfter(stages, i, current_data, times, trace, out,
                        Stage_process(stages[i], current_data, times[i]))
\* stage i ended as r: go on with the next stage, or leave the loop with its failure
RunStagesAfter(stages, i, current_data, times, trace, out, r) ==
    IF r.ok
    THEN RunStages(stages, i + 1, r.val, times,
                   Append(trace, Invocation(i, stages[i], current_data, r)), out \o r.out)
    ELSE [ok |-> FALSE, val |-> PyNone, exc |-> r.exc,
          trace |-> Append(trace, Invocation(i, stages[i], current_data, r)),
          out |-> out \o r.out]

(***************************************************************************)
(* Pipeline Demo (annotated): adapters.  Each process returns the adapter  *)
(* object as the call leaves it (self) and how the call ended.             *)
(***************************************************************************)
AdapterClasses == {"JSONAdapter", "CSVAdapter", "StreamAdapter"}

\* ProcessingPipeline.__init__ and the adapter's __init__
NewPipeline(cls) == [cls |-> cls, stages |-> <<>>, stats |-> [processed |-> 0, errors |-> 0]]

\* add_stage putting the new stage first
add_stage_Prepend(self, stage) == [self EXCEPT !.stages = <<stage>> \o @]

\* ProcessingPipeline.add_stage
add_stage(self, stage) == [self EXCEPT !.stages = Append(@, stage)]

CallEnd(self, r, val) ==
    [self |-> self, ok |-> r.ok, val |-> val, exc |-> r.exc, trace |-> r.trace, out |-> r.out]

\* JSONAdapter.process after the loop over the stages ended as r
JSONAdapter_ends(self, r) ==
    IF r.ok
    THEN CallEnd([self EXCEPT !.stats.processed = @ + 1], r, r.val)
    ELSE CallEnd([self EXCEPT !.stats.errors = @ + 1], r, PyNone)

\* JSONAdapter.process
JSONAdapter_process(self, data, times) ==
    JSONAdapter_ends(self, RunStages(self.stages, 1, data, times, <<>>, <<>>))

\* CSVAdapter.process after the loop over the stages ended as r
CSVAdapter_ends(self, r) ==
    IF r.ok
    THEN CallEnd([self EXCEPT !.stats.processed = @ + 1], r,
                 PyStr("CSV_EXPORT: " \o Str(r.val)))
    ELSE CallEnd([self EXCEPT !.stats.errors = @ + 1], r, PyNone)

\* CSVAdapter.process counting the call as processed before the stages run
CSVAdapter_ends_CountsFirst(self, r) ==
    IF r.ok
    THEN CallEnd([self EXCEPT !.stats.processed = @ + 1], r,
                 PyStr("CSV_EXPORT: " \o Str(r.val)))
    ELSE CallEnd([self EXCEPT !.stats.processed = @ + 1, !.stats.errors = @ + 1], r, PyNone)

CSVAdapter_process_CountsFirst(self, data, times) ==
    CSVAdapter_ends_CountsFirst(self, RunStages(self.stages, 1, data, times, <<>>, <<>>))

\* CSVAdapter.process
CSVAdapter_process(self, data, times) ==
    CSVAdapter_ends(self, RunStages(self.stages, 1, data, times, <<>>, <<>>))

\* StreamAdapter.process after the loop over the stages ended as r
StreamAdapter_ends(self, r) ==
    IF r.ok
    THEN CallEnd([self EXCEPT !.stats.processed = @ + 1], r, r.val)
    ELSE CallEnd([self EXCEPT !.stats.errors = @ + 1], r, PyNone)

\* StreamAdapter.process
StreamAdapter_process(self, data, times) ==
    StreamAdapter_ends(self, RunStages(self.stages, 1, data, times, <<>>, <<>>))

\* pipeline.process(data): dispatch on the adapter's class
Pipeline_process(self, data, times) ==
    CASE self.cls = "JSONAdapter" -> JSONAdapter_process(self, data, times)
      [] self.cls = "CSVAdapter" -> CSVAdapter_process(self, data, times)
      [] self.cls = "StreamAdapter" -> StreamAdapter_process(self, data, times)

(***************************************************************************)
(* Pipeline Demo (annotated): NexusManager                                 *)
(***************************************************************************)
\* NexusManager.add_pipeline: self.pipelines[name] = pipeline
add_pipeline(pipelines, name, pipeline) ==
    [n \in DOMAIN pipelines \cup {name} |-> IF n = name THEN pipeline ELSE pipelines[n]]

\* NexusManager._handle_recovery: the lines it prints
handle_recovery(pipeline_name, data, error) ==
    <<"=== Error Recovery Test ===",
      "Simulating pipeline failure...",
      "Error detected: " \o error.msg,
      "Recovery initiated: Switching to backup processor",
      "Recovery successful: Pipeline restored, processing resumed">>

\* the lines process_data prints before it runs the pipeline
process_data_head(pipeline_name, data) ==
    <<"\nProcessing " \o pipeline_name \o " data through pipeline...",
      "Input: " \o Str(data)>>

\* process_data after the run of pipeline p ended as r: print the result, or
\* catch the failure and narrate the recovery
process_data_ends(objs, p, pipeline_name, data, r) ==
    [objs |-> [objs EXCEPT ![p] = r.self],
     out |-> process_data_head(pipeline_name, data) \o r.out \o
             (IF r.ok THEN <<"Output: " \o Str(r.val)>>
              ELSE handle_recovery(pipeline_name, data, r.exc)),
     runs |-> <<r.ok>>,
     trace |-> r.trace,
     caught |-> r.exc,
     exc |-> NoExc]

\* process_data retrying the pipeline once after a failure
process_data_retried(objs, p, r, again) ==
    IF r.runs[1] THEN r
    ELSE [objs |-> [objs EXCEPT ![p] = again.self], out |-> r.out \o again.out,
          runs |-> r.runs \o <<again.ok>>, trace |-> r.trace, caught |-> r.caught,
          exc |-> NoExc]

NexusManager_process_data_Retry(pipelines, objs, pipeline_name, data, times) ==
    IF pipeline_name \notin DOMAIN pipelines
    THEN [objs |-> objs, out |-> <<>>, runs |-> <<>>, trace |-> <<>>,
          caught |-> NoExc, exc |-> NoExc]
    ELSE process_data_retried(
            objs, pipelines[pipeline_name],
            process_data_ends(objs, pipelines[pipeline_name], pipeline_name, data,
                Pipeline_process(objs[pipelines[pipeline_name]], data, times)),
            Pipeline_process(
                Pipeline_process(objs[pipelines[pipeline_name]], data, times).self,
                data, times))

\* NexusManager.process_data: the adapters as the call leaves them (objs), the
\* lines printed, the outcomes of the process calls it made (runs) and the
\* failure that leaves it (exc)
NexusManager_process_data(pipelines, objs, pipeline_name, data, times) ==
    IF pipeline_name \notin DOMAIN pipelines
    THEN [objs |-> objs, out |-> <<>>, runs |-> <<>>, trace |-> <<>>,
          caught |-> NoExc, exc |-> NoExc]
    ELSE process_data_ends(objs, pipelines[pipeline_name], pipeline_name, data,
                           Pipeline_process(objs[pipelines[pipeline_name]], data, times))

(***************************************************************************)
(* Inputs                                                                  *)
(***************************************************************************)
SampleRecord ==
    PyDict(<<KV("sensor", PyStr("temp")), KV("value", PyFloat(23500)), KV("unit", PyStr("C"))>>)

FalsyPayloads == {PyStr(""), PyList(<<>>), PyDict(<<>>), PyInt(0), PyNone}

Payloads ==
    FalsyPayloads \cup
    {PyStr(SENTINEL), PyStr("user,action,timestamp"), SampleRecord,
     PyList(<<PyInt(1), PyInt(2)>>), PyDict(<<KV("raw_data", PyStr(SENTINEL))>>)}

\* values time.time() may return
TimeValues == {PyFloat(1000), PyFloat(2500)}

\* the readings of the clock at the stages of one call: they never go back
Times(n) ==
    {ts \in [1..n -> TimeValues] : \A i \in 1..n, j \in 1..n : i < j => ts[i].n <= ts[j].n}

(***************************************************************************)
(* State                                                                   *)
(***************************************************************************)
\* what is observed of one operation: the call (op, obj, name, data), how it ended
\* (outcome, val, exc), the stage invocations and printed lines, for process_data
\* how the pipeline run inside it ended (inner, caught) and how many runs it
\* made, and the adapters as they were before the operation (pre)
Observed(op, obj, name, data, r) ==
    [op |-> op, obj |-> obj, name |-> name, data |-> data, outcome |-> r.outcome,
     val |-> r.val, exc |-> r.exc, trace |-> r.trace, out |-> r.out,
     inner |-> r.inner, caught |-> r.caught, runs |-> r.runs, pre |-> pipes]

Nothing ==
    [outcome |-> "returned", val |-> PyNone, exc |-> NoExc, trace |-> <<>>, out |-> <<>>,
     inner |-> "none", caught |-> NoExc, runs |-> 0]

NoCall == Observed("none", "", "", PyNone, Nothing)

Outcome(ok) == IF ok THEN "returned" ELSE "raised"

RECURSIVE SumOver(_, _)
SumOver(f, S) ==
    IF S = {} THEN 0
    ELSE LET x == CHOOSE y \in S : TRUE IN f[x] + SumOver(f, S \ {x})

\* add_stage calls made so far
StagesAdded == SumOver([p \in DOMAIN pipes |-> Len(pipes[p].stages)], DOMAIN pipes)
\* process calls made so far
CallsMade == SumOver([p \in DOMAIN calls |-> calls[p].returned + calls[p].raised], DOMAIN calls)

NoNames == [x \in {} |-> ""]

Init ==
    /\ \E c \in AdapterClasses : pipes = [p \in {c} |-> NewPipeline(c)]
    /\ calls = [p \in DOMAIN pipes |-> [returned |-> 0, raised |-> 0]]
    /\ manager = NoNames
    /\ streams = <<>>
    /\ last = NoCall

\* pipeline.add_stage(Stage())
AddStage(p, kind) ==
    /\ StagesAdded < MaxStages
    /\ pipes' = [pipes EXCEPT ![p] = add_stage(@, kind)]
    /\ last' = Observed("add_stage", p, "", PyNone, Nothing)
    /\ UNCHANGED <<manager, calls, streams>>

\* the state after pipeline p's process(data) ended as r
ProcessEnds(p, data, r) ==
    /\ pipes' = [pipes EXCEPT ![p] = r.self]
    /\ calls' = [calls EXCEPT ![p] = IF r.ok THEN [@ EXCEPT !.returned = @ + 1]
                                             ELSE [@ EXCEPT !.raised = @ + 1]]
    /\ last' = Observed("process", p, "", data,
                         [outcome |-> Outcome(r.ok), val |-> r.val, exc |-> r.exc,
                          trace |-> r.trace, out |-> r.out, inner |-> "none",
                          caught |-> NoExc, runs |-> 1])

\* pipeline.process(data), called directly
Process(p, data, times) ==
    /\ CallsMade < MaxCalls
    /\ ProcessEnds(p, data, Pipeline_process(pipes[p], data, times))
    /\ UNCHANGED <<manager, streams>>

Next ==
    \/ \E p \in DOMAIN pipes, kind \in StageKinds : AddStage(p, kind)
    \/ \E p \in DOMAIN pipes, data \in Payloads :
          \E times \in Times(Len(pipes[p].stages)) : Process(p, data, times)

Spec == Init /\ [][Next]_vars

(***************************************************************************)
(* The manager over the pipelines its driver builds (me.py, main)          *)
(***************************************************************************)
PipelineNames == {"JSON", "CSV"}

\* the payloads the driver hands the manager, and an empty one
ManagerPayloads == {SampleRecord, PyStr(SENTINEL), PyStr("user,action,timestamp"), PyStr("")}

\* main(): JSONAdapter with all three stages, CSVAdapter and StreamAdapter with
\* Input and Output
DriverStages(cls) ==
    IF cls = "JSONAdapter" THEN <<"InputStage", "TransformStage", "OutputStage">>
    ELSE <<"InputStage", "OutputStage">>

InitManager ==
    /\ pipes = [c \in AdapterClasses |-> [NewPipeline(c) EXCEPT !.stages = DriverStages(c)]]
    /\ calls = [p \in DOMAIN pipes |-> [returned |-> 0, raised |-> 0]]
    /\ manager = NoNames
    /\ streams = <<>>
    /\ last = NoCall

\* nexus.add_pipeline(name, pipeline)
AddPipeline(name, p) ==
    /\ manager' = add_pipeline(manager, name, p)
    /\ last' = Observed("add_pipeline", p, name, PyNone, Nothing)
    /\ UNCHANGED <<pipes, calls, streams>>

Count(bools, b) == Cardinality({i \in 1..Len(bools) : bools[i] = b})

\* the state after process_data(name, data), which looked up pipeline p, ended as r
ProcessDataEnds(p, name, data, r) ==
    /\ pipes' = r.objs
    /\ calls' = [q \in DOMAIN calls |->
                    IF q = p
                    THEN [returned |-> calls[q].returned + Count(r.runs, TRUE),
                          raised |-> calls[q].raised + Count(r.runs, FALSE)]
                    ELSE calls[q]]
    /\ last' = Observed("process_data", p, name, data,
                         [outcome |-> Outcome(r.exc = NoExc), val |-> PyNone,
                          exc |-> r.exc, trace |-> r.trace, out |-> r.out,
                          inner |-> IF r.runs = <<>> THEN "none"
                                    ELSE Outcome(r.runs[Len(r.runs)]),
                          caught |-> r.caught, runs |-> Len(r.runs)])

\* nexus.process_data(name, data)
ProcessData(name, data, times) ==
    /\ CallsMade < MaxCalls
    /\ ProcessDataEnds(IF name \in DOMAIN manager THEN manager[name] ELSE "", name, data,
                       NexusManager_process_data(manager, pipes, name, data, times))
    /\ UNCHANGED <<manager, streams>>

NextManager ==
    \/ \E name \in PipelineNames, p \in DOMAIN pipes : AddPipeline(name, p)
    \/ \E name \in PipelineNames, data \in ManagerPayloads :
          \E times \in Times(MaxStages) : ProcessData(name, data, times)

SpecManager == InitManager /\ [][NextManager]_vars

(***************************************************************************)
(* Pipeline Demo Revision 1 (src/ex2/nexus_pipeline.py).  The counters of  *)
(* the stats record are Python numbers: an int, or a complex re + im j.    *)
(***************************************************************************)
Number(t, re, im) == [t |-> t, re |-> re, im |-> im]
\* the int literal i
IntLit(i) == Number("int", i, 0)
\* the imaginary literal 1j
ImagLit(i) == Number("complex", 0, i)
\* a + b on Python numbers
NumAdd(a, b) ==
    Number(IF a.t = "complex" \/ b.t = "complex" THEN "complex" ELSE "int",
           a.re + b.re, a.im + b.im)

\* InputStage.process
Rev1_InputStage_process(data) ==
    IF ~Truthy(data)
    THEN Raised(Exc("ValueError", "Invalid data format"), <<>>)
    ELSE Returned(PyDict(<<KV("raw_data", data), KV("parsed", PyBool(TRUE))>>), <<>>)

\* TransformStage.process
Rev1_TransformStage_process(data) ==
    IF data.t # "dict"
    THEN Raised(NoAttribute(data, "get"), <<>>)
    ELSE IF EqualsStr(DictGet(data, "raw_data"), SENTINEL)
    THEN Raised(Exc("RuntimeError", "Invalid data format"), <<>>)
    ELSE Returned(DictSet(DictSet(data, "enriched", PyBool(TRUE)),
                          "metadata", PyStr("Nexus-v1.0")), <<>>)

\* OutputStage.process
Rev1_OutputStage_process(data) ==
    IF data.t # "dict"
    THEN Raised(NoAttribute(data, "get"), <<>>)
    ELSE Returned(PyStr("Processed result: " \o Str(DictGet(data, "raw_data"))
                        \o " [Verified by Nexus]"), <<>>)

\* stage.process(current_data)
Rev1_Stage_process(kind, data) ==
    CASE kind = "InputStage" -> Rev1_InputStage_process(data)
      [] kind = "TransformStage" -> Rev1_TransformStage_process(data)
      [] kind = "OutputStage" -> Rev1_OutputStage_process(data)

RECURSIVE Rev1_RunStages(_, _, _, _)
RECURSIVE Rev1_RunStagesAfter(_, _, _, _, _)
\* for stage in self.stages: current_data = stage.process(current_data)
Rev1_RunStages(stages, i, current_data, trace) ==
    IF i > Len(stages)
    THEN [ok |-> TRUE, val |-> current_data, exc |-> NoExc, trace |-> trace, out |-> <<>>]
    ELSE Rev1_RunStagesAfter(stages, i, current_data, trace,
                             Rev1_Stage_process(stages[i], current_data))
Rev1_RunStagesAfter(stages, i, current_data, trace, r) ==
    IF r.ok
    THEN Rev1_RunStages(stages, i + 1, r.val,
                        Append(trace, Invocation(i, stages[i], current_data, r)))
    ELSE [ok |-> FALSE, val |-> PyNone, exc |-> r.exc,
          trace |-> Append(trace, Invocation(i, stages[i], current_data, r)),
          out |-> <<>>]

\* ProcessingPipeline.__init__
Rev1_NewPipeline(cls) ==
    [cls |-> cls, stages |-> <<>>, stats |-> [processed |-> IntLit(0), errors |-> IntLit(0)]]

\* ProcessingPipeline.add_stage
Rev1_add_stage(self, data) == [self EXCEPT !.stages = Append(@, data)]

\* how a process call ends: the adapter as the call leaves it, the value
\* returned or the failure raised, the stage invocations and the lines printed
Rev1_Return(self, val, trace, out) ==
    [self |-> self, ok |-> TRUE, val |-> val, exc |-> NoExc, trace |-> trace, out |-> out]
Rev1_Raise(self, exc, trace) ==
    [self |-> self, ok |-> FALSE, val |-> PyNone, exc |-> exc, trace |-> trace, out |-> <<>>]

\* except Exception as e: self.stats["errors"] += <one>; raise e
Rev1_Except(self, one, exc, trace) ==
    Rev1_Raise([self EXCEPT !.stats.errors = NumAdd(@, one)], exc, trace)

\* self.stats["processed"] += 1
Rev1_CountProcessed(self) == [self EXCEPT !.stats.processed = NumAdd(@, IntLit(1))]

\* current_data.split("'value': ")[1].split(", ")[0] on the str text, with the
\* parts of the first split
Rev1_ValueText(parts) == Split(parts[2], ", ")[1]

\* JSONAdapter.process after the loop left current_data in r
Rev1_JSONAdapter_ends(self, r) ==
    IF ~r.ok THEN Rev1_Except(self, IntLit(1), r.exc, r.trace)
    ELSE IF r.val.t # "str"
    THEN Rev1_Except(Rev1_CountProcessed(self), IntLit(1),
                     NoAttribute(r.val, "split"), r.trace)
    ELSE IF Len(Split(r.val.s, "'value': ")) < 2
    THEN Rev1_Except(Rev1_CountProcessed(self), IntLit(1),
                     Exc("IndexError", "list index out of range"), r.trace)
    ELSE Rev1_Return(Rev1_CountProcessed(self),
                     PyStr("Processed temperature reading: "
                           \o Rev1_ValueText(Split(r.val.s, "'value': "))
                           \o "°C (Normal range)"),
                     r.trace, <<"Transform: Enriched with metadata and validation">>)

\* JSONAdapter.process
Rev1_JSONAdapter_process(self, data) ==
    Rev1_JSONAdapter_ends(self, Rev1_RunStages(self.stages, 1, data, <<>>))

\* current_data.count("action"): of a str its occurrences, of a list the items
\* equal to it
Rev1_CountAction(v) ==
    IF v.t = "str" THEN CountIn(v.s, "action")
    ELSE Cardinality({i \in 1..Len(v.items) : EqualsStr(v.items[i], "action")})

\* CSVAdapter.process after the loop left current_data in r
Rev1_CSVAdapter_ends(self, r) ==
    IF ~r.ok THEN Rev1_Except(self, IntLit(1), r.exc, r.trace)
    ELSE IF r.val.t \notin {"str", "list"}
    THEN Rev1_Except(Rev1_CountProcessed(self), IntLit(1),
                     NoAttribute(r.val, "count"), r.trace)
    ELSE Rev1_Return(Rev1_CountProcessed(self),
                     PyStr("User activity logged: " \o IntToStr(Rev1_CountAction(r.val))
                           \o " actions processed"),
                     r.trace, <<"Transform: Parsed and structured data">>)

\* CSVAdapter.process
Rev1_CSVAdapter_process(self, data) ==
    Rev1_CSVAdapter_ends(self, Rev1_RunStages(self.stages, 1, data, <<>>))

\* StreamAdapter.process after the loop left current_data in r; its except
\* branch adds 1j
Rev1_StreamAdapter_ends(self, r) ==
    IF ~r.ok THEN Rev1_Except(self, ImagLit(1), r.exc, r.trace)
    ELSE Rev1_Return(Rev1_CountProcessed(self),
                     PyStr("Output: Stream summary: 5 readings, avg: 22.1°C"),
                     r.trace, <<"Transform: Aggregated and filtered">>)

\* StreamAdapter.process
Rev1_StreamAdapter_process(self, data) ==
    Rev1_StreamAdapter_ends(self, Rev1_RunStages(self.stages, 1, data, <<>>))

\* pip.process(data)
Rev1_Pipeline_process(self, data) ==
    CASE self.cls = "JSONAdapter" -> Rev1_JSONAdapter_process(self, data)
      [] self.cls = "CSVAdapter" -> Rev1_CSVAdapter_process(self, data)
      [] self.cls = "StreamAdapter" -> Rev1_StreamAdapter_process(self, data)

InitRev1 ==
    /\ \E c \in AdapterClasses : pipes = [p \in {c} |-> Rev1_NewPipeline(c)]
    /\ calls = [p \in DOMAIN pipes |-> [returned |-> 0, raised |-> 0]]
    /\ manager = NoNames
    /\ streams = <<>>
    /\ last = NoCall

\* pipeline.add_stage(Stage())
Rev1AddStage(p, kind) ==
    /\ StagesAdded < MaxStages
    /\ pipes' = [pipes EXCEPT ![p] = Rev1_add_stage(@, kind)]
    /\ last' = Observed("add_stage", p, "", PyNone, Nothing)
    /\ UNCHANGED <<manager, calls, streams>>

\* pipeline.process(data)
Rev1Process(p, data) ==
    /\ CallsMade < MaxCalls
    /\ ProcessEnds(p, data, Rev1_Pipeline_process(pipes[p], data))
    /\ UNCHANGED <<manager, streams>>

NextRev1 ==
    \/ \E p \in DOMAIN pipes, kind \in StageKinds : Rev1AddStage(p, kind)
    \/ \E p \in DOMAIN pipes, data \in Payloads : Rev1Process(p, data)

SpecRev1 == InitRev1 /\ [][NextRev1]_vars

(***************************************************************************)
(* Pipeline Demo (annotated): properties of the adapters                   *)
(***************************************************************************)
InputTransformOutput == <<"InputStage", "TransformStage", "OutputStage">>

IsPrefix(a, b) == Len(a) <= Len(b) /\ SubSeq(b, 1, Len(a)) = a

\* the most recent operation was a process call on an adapter with these stages
Processed(stages) == last.op = "process" /\ pipes[last.obj].stages = stages

StatsBefore == last.pre[last.obj].stats
StatsAfter == pipes[last.obj].stats

\* the call counted one error and nothing else
CountedOneError ==
    /\ StatsAfter.errors = StatsBefore.errors + 1
    /\ StatsAfter.processed = StatsBefore.processed

\* C1: "TRIGGER_FAILURE" through Input, Transform, Output: the Transform stage
\* raises, the Output stage is not invoked, errors goes up by exactly 1 and
\* processed stays.
C1_SentinelFailsInTransform ==
    (Processed(InputTransformOutput) /\ last.data = PyStr(SENTINEL)) =>
        /\ last.outcome = "raised"
        /\ Len(last.trace) = 2
        /\ last.trace[1].kind = "InputStage" /\ last.trace[1].ok
        /\ last.trace[2].kind = "TransformStage" /\ ~last.trace[2].ok
        /\ last.exc = Exc("RuntimeError", "Invalid data format")
        /\ \A i \in 1..Len(last.trace) : last.trace[i].kind # "OutputStage"
        /\ CountedOneError

C1_Witness ==
    /\ Processed(InputTransformOutput)
    /\ last.data = PyStr(SENTINEL)
    /\ last.outcome = "raised"
    /\ StatsAfter.errors = 1

\* C3: for every adapter, processed is the number of calls that returned,
\* errors the number of calls that raised, their sum the number of calls, and a
\* raising call hands the caller the failure the stage raised.
C3_StatsCountOutcomes ==
    /\ \A p \in DOMAIN pipes :
          /\ pipes[p].stats.processed = calls[p].returned
          /\ pipes[p].stats.errors = calls[p].raised
          /\ pipes[p].stats.processed + pipes[p].stats.errors
                = calls[p].returned + calls[p].raised
    /\ (last.op = "process" /\ last.outcome = "raised") =>
          /\ Len(last.trace) >= 1
          /\ last.exc = last.trace[Len(last.trace)].exc
          /\ last.exc # NoExc

C3_Witness ==
    /\ last.op = "process" /\ last.outcome = "raised"
    /\ StatsAfter.errors = 1 /\ StatsAfter.processed = 1
    /\ Len(pipes[last.obj].stages) >= 2

\* the stages invoked by the most recent process call, in order, each fed the
\* value the one before it returned
ChainedInOrder ==
    LET stages == pipes[last.obj].stages
    IN \A i \in 1..Len(last.trace) :
          /\ i <= Len(stages)
          /\ last.trace[i].index = i
          /\ last.trace[i].kind = stages[i]
          /\ last.trace[i].arg = IF i = 1 THEN last.data ELSE last.trace[i - 1].val
          /\ i < Len(last.trace) => last.trace[i].ok

C5_InvokedInOrder ==
    last.op = "process" =>
        /\ ChainedInOrder
        /\ last.outcome = "returned" =>
              /\ Len(last.trace) = Len(pipes[last.obj].stages)
              /\ \A i \in 1..Len(last.trace) : last.trace[i].ok
        /\ last.outcome = "raised" =>
              /\ Len(last.trace) >= 1
              /\ ~last.trace[Len(last.trace)].ok

C5_AppendOnly ==
    \A p \in DOMAIN pipes :
        /\ IsPrefix(pipes[p].stages, pipes'[p].stages)
        /\ Len(pipes'[p].stages) <= Len(pipes[p].stages) + 1

\* C5: the stage list only grows at its end, one stage per add_stage; process
\* invokes the stages in registration order, each once in a call that returns,
\* each fed the previous stage's return value, and none after a stage that raised.
C5_StagesOrderedAppendOnly == [](C5_InvokedInOrder) /\ [][C5_AppendOnly]_vars

C5_Witness ==
    /\ last.op = "process" /\ last.outcome = "raised"
    /\ Len(pipes[last.obj].stages) = 3
    /\ Len(last.trace) = 2

\* C6: with an Input stage first, a falsy payload raises the invalid-input
\* failure before any other stage runs, counting one error and nothing
\* processed; any other payload is wrapped by the Input stage into an envelope
\* with the payload unchanged and parsed true.
C6_InputStageFirst ==
    (last.op = "process" /\ pipes[last.obj].stages # <<>>
        /\ pipes[last.obj].stages[1] = "InputStage") =>
        IF last.data \in FalsyPayloads
        THEN /\ last.outcome = "raised"
             /\ last.exc = Exc("ValueError", "Invalid data format")
             /\ Len(last.trace) = 1 /\ last.trace[1].kind = "InputStage"
             /\ CountedOneError
        ELSE /\ last.trace[1].ok
             /\ last.trace[1].val.t = "dict"
             /\ DictGet(last.trace[1].val, "raw_data") = last.data
             /\ DictGet(last.trace[1].val, "parsed") = PyBool(TRUE)

C6_Witness ==
    /\ Processed(InputTransformOutput)
    /\ last.data = PyDict(<<>>)
    /\ last.outcome = "raised"
    /\ Len(last.trace) = 1

RenderedResult(d) == "Processed result: " \o Str(d) \o " [Verified by Nexus]"

\* C7: a truthy payload d other than the sentinel, through Input, Transform,
\* Output: the JSON and Stream adapters return "Processed result: <d> [Verified
\* by Nexus]", the CSV adapter the same text after "CSV_EXPORT: ", and the
\* envelope's raw payload is still d after the Transform stage.
C7_RenderedResult ==
    (Processed(InputTransformOutput) /\ Truthy(last.data)
        /\ last.data # PyStr(SENTINEL)) =>
        /\ last.outcome = "returned"
        /\ DictGet(last.trace[2].val, "raw_data") = last.data
        /\ last.val = IF pipes[last.obj].cls = "CSVAdapter"
                      THEN PyStr("CSV_EXPORT: " \o RenderedResult(last.data))
                      ELSE PyStr(RenderedResult(last.data))
        /\ last.data = SampleRecord =>
              RenderedResult(last.data) =
                "Processed result: {'sensor': 'temp', 'value': 23.5, 'unit': 'C'} [Verified by Nexus]"

C7_Witness ==
    /\ Processed(InputTransformOutput)
    /\ last.data = SampleRecord
    /\ pipes[last.obj].cls = "CSVAdapter"
    /\ last.val = PyStr("CSV_EXPORT: Processed result: {'sensor': 'temp', 'value': 23.5, 'unit': 'C'} [Verified by Nexus]")

(***************************************************************************)
(* Pipeline Demo (annotated): properties of the manager                    *)
(***************************************************************************)
RecoveryNarration ==
    <<"Recovery initiated: Switching to backup processor",
      "Recovery successful: Pipeline restored, processing resumed">>

C4_ErrorsCountFailedCalls ==
    /\ \A p \in DOMAIN pipes :
          pipes[p].stats.errors = IntLit(calls[p].raised)
    /\ (last.op = "process" /\ last.outcome = "raised") =>
          StatsAfter.errors = NumAdd(StatsBefore.errors, IntLit(1))

(***************************************************************************)
(* Text helpers of the stream demos                                        *)
(***************************************************************************)
Whitespace == " \t\n"
UpperCase == "ABCDEFGHIJKLMNOPQRSTUVWXYZ"
LowerCase == "abcdefghijklmnopqrstuvwxyz"

CharAt(text, i) == SubSeq(text, i, i)

IsSpace(c) == Contains(Whitespace, c)

\* text.strip()
Strip(text) ==
    LET kept == {i \in 1..Len(text) : ~IsSpace(CharAt(text, i))}
    IN IF kept = {} THEN ""
       ELSE SubSeq(text, CHOOSE i \in kept : \A j \in kept : i <= j,
                         CHOOSE i \in kept : \A j \in kept : j <= i)

\* len(text.split()): the runs of characters that are no whitespace
WordCount(text) ==
    Cardinality({i \in 1..Len(text) :
                    /\ ~IsSpace(CharAt(text, i))
                    /\ (i = 1 \/ IsSpace(CharAt(text, i - 1)))})

LowerChar(c) ==
    IF Contains(UpperCase, c)
    THEN CharAt(LowerCase, IndexOf(UpperCase, c, 1))
    ELSE c

RECURSIVE LowerRange(_, _, _)
\* text[from-1:to].lower(), by halves
LowerRange(text, from, to) ==
    IF from > to THEN ""
    ELSE IF from = to THEN LowerChar(CharAt(text, from))
    ELSE LowerRange(text, from, (from + to) \div 2)
            \o LowerRange(text, (from + to) \div 2 + 1, to)

\* text.lower()
Lower(text) == LowerRange(text, 1, Len(text))

AllDigits(text) ==
    text # "" /\ \A i \in 1..Len(text) : Contains("0123456789", CharAt(text, i))

RECURSIVE NatValue(_)
\* the number a non-empty run of decimal digits denotes
NatValue(text) ==
    IF text = "" THEN 0
    ELSE NatValue(SubSeq(text, 1, Len(text) - 1)) * 10
            + (IndexOf("0123456789", CharAt(text, Len(text)), 1) - 1)

HasSign(text) == text # "" /\ CharAt(text, 1) \in {"+", "-"}
Unsigned(text) == IF HasSign(text) THEN SubSeq(text, 2, Len(text)) ELSE text
Signed(text, magnitude) ==
    IF HasSign(text) /\ CharAt(text, 1) = "-" THEN -magnitude ELSE magnitude

\* int(text): surrounding whitespace and one sign allowed, decimal digits
\* otherwise (digit-group underscores are not modelled)
ParseInt(text) ==
    LET body == Unsigned(Strip(text))
    IN IF AllDigits(body)
       THEN Returned(PyInt(Signed(Strip(text), NatValue(body))), <<>>)
       ELSE Raised(Exc("ValueError",
                       "invalid literal for int() with base 10: " \o StrRepr(text)),
                   <<>>)

\* the thousandths a run of fraction digits denotes (digits after the
\* third are dropped: the readings of the inputs carry one decimal)
MilliOf(frac) ==
    NatValue(SubSeq(frac \o "000", 1, 3))

\* float(text) in thousandths: surrounding whitespace and one sign allowed,
\* digits with at most one point otherwise (exponents, inf and nan are not
\* modelled)
ParseFloat(text) ==
    LET body == Unsigned(Strip(text))
        parts == Split(body, ".")
        whole == parts[1]
        frac == IF Len(parts) = 2 THEN parts[2] ELSE ""
        wellFormed ==
            /\ Len(parts) <= 2
            /\ whole = "" \/ AllDigits(whole)
            /\ frac = "" \/ AllDigits(frac)
            /\ whole # "" \/ frac # ""
    IN IF wellFormed
       THEN Returned(PyFloat(Signed(Strip(text),
                                    NatValue(whole) * 1000 + MilliOf(frac))), <<>>)
       ELSE Raised(Exc("ValueError",
                       "could not convert string to float: " \o StrRepr(text)),
                   <<>>)

RECURSIVE SumSeq(_)
\* sum(xs) of a list of numbers
SumSeq(xs) == IF xs = <<>> THEN 0 ELSE xs[1] + SumSeq(Tail(xs))

\* round(num / den) to the nearest integer, ties to the even one; num >= 0
RoundHalfEven(num, den) ==
    LET q == num \div den
        r == num % den
    IN IF 2 * r > den THEN q + 1
       ELSE IF 2 * r = den THEN q + (q % 2)
       ELSE q

\* f"{x:.1f}" of x = milli / (1000 * den), x >= 0
FormatTenths(milli, den) ==
    LET t == RoundHalfEven(milli, 100 * den)
    IN NatToStr(t \div 10) \o "." \o Digit(t % 10)

\* f"{x:.2f}" of x = milli / (1000 * den), x >= 0
FormatHundredths(milli, den) ==
    LET h == RoundHalfEven(milli, 10 * den)
    IN NatToStr(h \div 100) \o "." \o Digit((h \div 10) % 10) \o Digit(h % 10)

\* f"{i:+d}"
SignedInt(i) == IF i < 0 THEN IntToStr(i) ELSE "+" \o NatToStr(i)

RECURSIVE JoinStr(_, _)
\* sep.join(str(d) for d in xs)
JoinStr(xs, sep) ==
    IF xs = <<>> THEN ""
    ELSE IF Len(xs) = 1 THEN Str(xs[1])
    ELSE Str(xs[1]) \o sep \o JoinStr(Tail(xs), sep)

(***************************************************************************)
(* Stream Processor Demo A (src/ex01/stream_processor.py): streams         *)
(*                                                                         *)
(* A stream object is one record for the three classes; the fields a class *)
(* does not declare keep their initial value.  A batch is the sequence of  *)
(* its items.                                                              *)
(***************************************************************************)
StreamClasses == {"SensorStream", "TransactionStream", "EventStream"}

A_StreamType(cls) ==
    CASE cls = "SensorStream" -> "Environmental Data"
      [] cls = "TransactionStream" -> "Financial Data"
      [] cls = "EventStream" -> "System Events"

\* SensorStream(stream_id) / TransactionStream(stream_id) / EventStream(stream_id)
A_NewStream(cls, stream_id) ==
    [prog |-> "A", cls |-> cls, stream_id |-> stream_id,
     total_processed |-> 0, error_count |-> 0, data_history |-> <<>>,
     stream_type |-> A_StreamType(cls),
     temperature_readings |-> <<>>, humidity_readings |-> <<>>,
     pressure_readings |-> <<>>,
     buy_operations |-> <<>>, sell_operations |-> <<>>, net_flow |-> 0,
     event_types |-> [e \in {"login", "logout", "error", "warning"} |-> 0]]

\* how a method call on a stream ends: the stream afterwards, the value
\* returned or the failure raised, the lines printed
StreamReturned(self, val, out) ==
    [self |-> self, ok |-> TRUE, val |-> val, exc |-> NoExc, out |-> out]
StreamRaised(self, exc, out) ==
    [self |-> self, ok |-> FALSE, val |-> PyNone, exc |-> exc, out |-> out]

\* the body of a try block under way: the stream so far, the failure raised
Running(self) == [self |-> self, exc |-> NoExc]

\* data_str.split(key)[1].split(stop)[0]
TextAfter(data_str, key, stop) == Split(Split(data_str, key)[2], stop)[1]

A_StreamHeader(self) ==
    "Stream ID: " \o self.stream_id \o ", Type: " \o self.stream_type

\* self.<field> = [float(...)]: the list holding the latest reading only
Sensor_append_Latest(st, field, r) ==
    IF r.ok THEN [st EXCEPT !.self[field] = <<r.val.n>>]
    ELSE [st EXCEPT !.exc = r.exc]

\* self.<field>.append(float(...))
Sensor_append(st, field, r) ==
    IF r.ok THEN [st EXCEPT !.self[field] = Append(@, r.val.n)]
    ELSE [st EXCEPT !.exc = r.exc]

\* if key in data_str: self.<field>.append(float(data_str.split(key)[1].split(stop)[0]))
Sensor_reading(st, data_str, key, stop, field) ==
    IF st.exc # NoExc \/ ~Contains(data_str, key) THEN st
    ELSE Sensor_append(st, field, ParseFloat(TextAfter(data_str, key, stop)))

\* one iteration of the loop of SensorStream.process_batch
A_Sensor_item(st, data) ==
    Sensor_reading(
        Sensor_reading(
            Sensor_reading([st EXCEPT !.self.data_history = Append(@, data)],
                             Str(data), "temp:", ",", "temperature_readings"),
            Str(data), "humidity:", ",", "humidity_readings"),
        Str(data), "pressure:", "]", "pressure_readings")

RECURSIVE A_Sensor_loop(_, _, _)
A_Sensor_loop(st, data_batch, i) ==
    IF i > Len(data_batch) \/ st.exc # NoExc THEN st
    ELSE A_Sensor_loop(A_Sensor_item(st, data_batch[i]), data_batch, i + 1)

\* avg_temp as f"{avg_temp:.1f}"
A_AvgTemp(readings) ==
    IF readings = <<>> THEN FormatTenths(0, 1)
    ELSE FormatTenths(SumSeq(readings), Len(readings))

A_Sensor_summary(self, data_batch) ==
    "Sensor analysis: " \o NatToStr(Len(data_batch))
        \o " readings processed, avg temp: "
        \o A_AvgTemp(self.temperature_readings) \o "°C"

A_Sensor_ends(st, data_batch) ==
    IF st.exc = NoExc
    THEN StreamReturned(
            [st.self EXCEPT !.total_processed = @ + Len(data_batch)],
            PyStr(A_Sensor_summary(st.self, data_batch)),
            <<A_StreamHeader(st.self),
              "Processing sensor batch: [" \o JoinStr(data_batch, ", ") \o "]",
              A_Sensor_summary(st.self, data_batch)>>)
    ELSE StreamReturned(
            [st.self EXCEPT !.error_count = @ + 1],
            PyStr("Sensor processing error: " \o st.exc.msg),
            <<A_StreamHeader(st.self)>>)

\* SensorStream.process_batch
A_SensorStream_process_batch(self, data_batch) ==
    A_Sensor_ends(A_Sensor_loop(Running(self), data_batch, 1), data_batch)

\* data_str.split(key)[1].split(",")[0].split("]")[0]
A_AmountText(data_str, key) == Split(TextAfter(data_str, key, ","), "]")[1]

\* self.<field>.append(amount); self.net_flow += amount for a buy as for a sell
A_Transaction_append_Inflow(st, field, sign, r) ==
    IF r.ok
    THEN [st EXCEPT !.self[field] = Append(@, r.val.n),
                    !.self.net_flow = @ + r.val.n]
    ELSE [st EXCEPT !.exc = r.exc]

\* self.<field>.append(amount); self.net_flow -= / += amount
A_Transaction_append(st, field, sign, r) ==
    IF r.ok
    THEN [st EXCEPT !.self[field] = Append(@, r.val.n),
                    !.self.net_flow = @ + sign * r.val.n]
    ELSE [st EXCEPT !.exc = r.exc]

A_Transaction_amount(st, data_str) ==
    IF Contains(data_str, "buy:")
    THEN A_Transaction_append(st, "buy_operations", -1,
                              ParseInt(A_AmountText(data_str, "buy:")))
    ELSE IF Contains(data_str, "sell:")
    THEN A_Transaction_append(st, "sell_operations", 1,
                              ParseInt(A_AmountText(data_str, "sell:")))
    ELSE st

\* one iteration of the loop of TransactionStream.process_batch
A_Transaction_item(st, data) ==
    A_Transaction_amount([st EXCEPT !.self.data_history = Append(@, data)],
                         Str(data))

RECURSIVE A_Transaction_loop(_, _, _)
A_Transaction_loop(st, data_batch, i) ==
    IF i > Len(data_batch) \/ st.exc # NoExc THEN st
    ELSE A_Transaction_loop(A_Transaction_item(st, data_batch[i]),
                            data_batch, i + 1)

A_Transaction_summary(self, data_batch) ==
    "Transaction analysis: " \o NatToStr(Len(data_batch))
        \o " operations, net flow: " \o SignedInt(self.net_flow) \o " units"

\* the end of process_batch counting the items of a failed batch as processed
A_Transaction_ends_Counted(st, data_batch) ==
    IF st.exc = NoExc
    THEN StreamReturned(
            [st.self EXCEPT !.total_processed = @ + Len(data_batch)],
            PyStr(A_Transaction_summary(st.self, data_batch)),
            <<A_StreamHeader(st.self),
              "Processing transaction batch: [" \o JoinStr(data_batch, ", ") \o "]",
              A_Transaction_summary(st.self, data_batch)>>)
    ELSE StreamReturned(
            [st.self EXCEPT !.error_count = @ + 1,
                            !.total_processed = @ + Len(data_batch)],
            PyStr("Transaction processing error: " \o st.exc.msg),
            <<A_StreamHeader(st.self)>>)

\* the end of TransactionStream.process_batch: the summary after the loop, or
\* the except branch, which counts the error and returns its message
A_Transaction_ends(st, data_batch) ==
    IF st.exc = NoExc
    THEN StreamReturned(
            [st.self EXCEPT !.total_processed = @ + Len(data_batch)],
            PyStr(A_Transaction_summary(st.self, data_batch)),
            <<A_StreamHeader(st.self),
              "Processing transaction batch: [" \o JoinStr(data_batch, ", ") \o "]",
              A_Transaction_summary(st.self, data_batch)>>)
    ELSE StreamReturned(
            [st.self EXCEPT !.error_count = @ + 1],
            PyStr("Transaction processing error: " \o st.exc.msg),
            <<A_StreamHeader(st.self)>>)

\* TransactionStream.process_batch
A_TransactionStream_process_batch(self, data_batch) ==
    A_Transaction_ends(A_Transaction_loop(Running(self), data_batch, 1), data_batch)

\* one iteration of the loop of EventStream.process_batch
A_Event_item(st, data) ==
    LET event_type == Lower(Strip(Str(data)))
    IN IF event_type \in DOMAIN st.self.event_types
       THEN [st EXCEPT !.self.data_history = Append(@, data),
                       !.self.event_types[event_type] = @ + 1]
       ELSE [st EXCEPT !.self.data_history = Append(@, data)]

RECURSIVE A_Event_loop(_, _, _)
A_Event_loop(st, data_batch, i) ==
    IF i > Len(data_batch) \/ st.exc # NoExc THEN st
    ELSE A_Event_loop(A_Event_item(st, data_batch[i]), data_batch, i + 1)

A_Event_summary(self, data_batch) ==
    "Event analysis: " \o NatToStr(Len(data_batch)) \o " events, "
        \o NatToStr(self.event_types["error"]) \o " error detected"

A_Event_ends(st, data_batch) ==
    IF st.exc = NoExc
    THEN StreamReturned(
            [st.self EXCEPT !.total_processed = @ + Len(data_batch)],
            PyStr(A_Event_summary(st.self, data_batch)),
            <<A_StreamHeader(st.self),
              "Processing event batch: [" \o JoinStr(data_batch, ", ") \o "]",
              A_Event_summary(st.self, data_batch)>>)
    ELSE StreamReturned(
            [st.self EXCEPT !.error_count = @ + 1],
            PyStr("Event processing error: " \o st.exc.msg),
            <<A_StreamHeader(st.self)>>)

\* EventStream.process_batch
A_EventStream_process_batch(self, data_batch) ==
    A_Event_ends(A_Event_loop(Running(self), data_batch, 1), data_batch)

\* stream.process_batch(data_batch), by the class of the stream
A_process_batch(self, data_batch) ==
    CASE self.cls = "SensorStream" -> A_SensorStream_process_batch(self, data_batch)
      [] self.cls = "TransactionStream" ->
            A_TransactionStream_process_batch(self, data_batch)
      [] self.cls = "EventStream" -> A_EventStream_process_batch(self, data_batch)

\* a filter under way: the items kept so far, the failure raised
Keeping(kept) == [kept |-> kept, exc |-> NoExc]

Keep(f, data, wanted) == IF wanted THEN [f EXCEPT !.kept = Append(@, data)] ELSE f

Filter_ends(self, f) ==
    IF f.exc = NoExc THEN StreamReturned(self, PyList(f.kept), <<>>)
    ELSE StreamRaised(self, f.exc, <<>>)

RECURSIVE DataStream_select_Newest(_, _, _)
\* the loop putting each matching item in front of those kept so far
DataStream_select_Newest(data_batch, criteria, i) ==
    IF i > Len(data_batch) THEN <<>>
    ELSE DataStream_select_Newest(data_batch, criteria, i + 1)
         \o (IF Contains(Lower(Str(data_batch[i])), Lower(criteria.s))
             THEN <<data_batch[i]>> ELSE <<>>)

RECURSIVE DataStream_select(_, _, _)
\* the loop of DataStream.filter_data
DataStream_select(data_batch, criteria, i) ==
    IF i > Len(data_batch) THEN <<>>
    ELSE (IF Contains(Lower(Str(data_batch[i])), Lower(criteria.s))
          THEN <<data_batch[i]>> ELSE <<>>)
         \o DataStream_select(data_batch, criteria, i + 1)

\* DataStream.filter_data; criteria is None or a str
A_DataStream_filter_data(self, data_batch, criteria) ==
    IF criteria.t = "NoneType" THEN StreamReturned(self, PyList(data_batch), <<>>)
    ELSE StreamReturned(self, PyList(DataStream_select(data_batch, criteria, 1)),
                        <<>>)

\* if temp > 30: filtered.append(data)
A_Sensor_alert(f, data, r) ==
    IF r.ok THEN Keep(f, data, r.val.n > 30 * 1000) ELSE [f EXCEPT !.exc = r.exc]

RECURSIVE A_Sensor_select(_, _, _)
A_Sensor_select(f, data_batch, i) ==
    IF i > Len(data_batch) \/ f.exc # NoExc THEN f
    ELSE IF Contains(Str(data_batch[i]), "temp:")
    THEN A_Sensor_select(
            A_Sensor_alert(f, data_batch[i],
                           ParseFloat(TextAfter(Str(data_batch[i]), "temp:", ","))),
            data_batch, i + 1)
    ELSE A_Sensor_select(f, data_batch, i + 1)

\* SensorStream.filter_data
A_SensorStream_filter_data(self, data_batch, criteria) ==
    IF Truthy(criteria) /\ Contains(Lower(criteria.s), "high-pribasedority")
    THEN Filter_ends(self, A_Sensor_select(Keeping(<<>>), data_batch, 1))
    ELSE A_DataStream_filter_data(self, data_batch, criteria)

\* if amount > 100: filtered.append(data)
A_Transaction_large(f, data, r) ==
    IF r.ok THEN Keep(f, data, r.val.n > 100) ELSE [f EXCEPT !.exc = r.exc]

RECURSIVE A_Transaction_select(_, _, _)
A_Transaction_select(f, data_batch, i) ==
    IF i > Len(data_batch) \/ f.exc # NoExc THEN f
    ELSE IF Contains(Str(data_batch[i]), "buy:") \/ Contains(Str(data_batch[i]), "sell:")
    THEN A_Transaction_select(
            A_Transaction_large(f, data_batch[i],
                                ParseInt(A_AmountText(Str(data_batch[i]), ":"))),
            data_batch, i + 1)
    ELSE A_Transaction_select(f, data_batch, i + 1)

\* TransactionStream.filter_data
A_TransactionStream_filter_data(self, data_batch, criteria) ==
    IF Truthy(criteria) /\ Contains(Lower(criteria.s), "high-priority")
    THEN Filter_ends(self, A_Transaction_select(Keeping(<<>>), data_batch, 1))
    ELSE A_DataStream_filter_data(self, data_batch, criteria)

\* EventStream.filter_data
A_EventStream_filter_data(self, data_batch, criteria) ==
    IF Truthy(criteria) /\ Contains(Lower(criteria.s), "error")
    THEN StreamReturned(self,
                        PyList(DataStream_select(data_batch, PyStr("error"), 1)),
                        <<>>)
    ELSE A_DataStream_filter_data(self, data_batch, criteria)

\* stream.filter_data(data_batch, criteria), by the class of the stream
A_filter_data(self, data_batch, criteria) ==
    CASE self.cls = "SensorStream" ->
            A_SensorStream_filter_data(self, data_batch, criteria)
      [] self.cls = "TransactionStream" ->
            A_TransactionStream_filter_data(self, data_batch, criteria)
      [] self.cls = "EventStream" ->
            A_EventStream_filter_data(self, data_batch, criteria)

\* DataStream.get_stats; the success rate is kept in thousandths, rounded down
A_get_stats(self) ==
    StreamReturned(self,
        PyDict(<<KV("stream_id", PyStr(self.stream_id)),
                 KV("total_processed", PyInt(self.total_processed)),
                 KV("error_count", PyInt(self.error_count)),
                 KV("success_rate",
                    PyFloat(((self.total_processed - self.error_count) * 100 * 1000)
                            \div (IF self.total_processed > 1
                                  THEN self.total_processed ELSE 1)))>>),
        <<>>)

(***************************************************************************)
(* Stream Foundation Demo B (src/ex1/data_stream.py): streams              *)
(***************************************************************************)
FB_TypeData(cls) ==
    CASE cls = "SensorStream" -> "Environmental Data"
      [] cls = "TransactionStream" -> "Financial Data"
      [] cls = "EventStream" -> "Financial Data"

\* SensorStream(ID) / TransactionStream(ID) / EventStream(ID)
FB_NewStream(cls, ID) ==
    [prog |-> "FB", cls |-> cls, ID |-> ID, err |-> 0, type_data |-> FB_TypeData(cls),
     temp_readings |-> <<>>, humidity_readings |-> <<>>, pressure_readings |-> <<>>,
     avg |-> PyInt(0), total_processed |-> 0,
     buy_readings |-> <<>>, sell_readings |-> <<>>, net_flow |-> 0]

\* one iteration of the loop of SensorStream.process_batch
FB_Sensor_item(st, data) ==
    Sensor_reading(
        Sensor_reading(
            Sensor_reading(st, Str(data), "temp:", ",", "temp_readings"),
            Str(data), "humidity:", ",", "humidity_readings"),
        Str(data), "pressure:", "]", "pressure_readings")

RECURSIVE FB_Sensor_loop(_, _, _)
FB_Sensor_loop(st, data_batch, i) ==
    IF i > Len(data_batch) \/ st.exc # NoExc THEN st
    ELSE FB_Sensor_loop(FB_Sensor_item(st, data_batch[i]), data_batch, i + 1)

\* self.total_processed += 1; self.avg = sum(self.temp_readings) / self.total_processed
\* (the quotient in thousandths; it is exact for readings that are multiples
\* of 7.5 while fewer than seven batches have been counted)
FB_Sensor_average(self) ==
    [self EXCEPT !.total_processed = @ + 1,
                 !.avg = PyFloat(SumSeq(self.temp_readings)
                                 \div (self.total_processed + 1))]

\* len(data_batch[0].split()): the failure it raises, NoExc when it raises none
FB_Sensor_first(data_batch) ==
    IF data_batch = <<>> THEN Exc("IndexError", "list index out of range")
    ELSE IF data_batch[1].t # "str" THEN NoAttribute(data_batch[1], "split")
    ELSE NoExc

\* the statements of the try block after the loop
FB_Sensor_counted(st, data_batch) ==
    IF st.exc # NoExc THEN st
    ELSE [self |-> FB_Sensor_average(st.self), exc |-> FB_Sensor_first(data_batch)]

FB_Sensor_ends(st, data_batch) ==
    IF st.exc = NoExc
    THEN StreamReturned(st.self,
            PyStr("Sensor analysis: " \o NatToStr(WordCount(data_batch[1].s))
                  \o " readings processed, avg temp: " \o Str(st.self.avg) \o "°C"),
            <<>>)
    ELSE StreamReturned([st.self EXCEPT !.err = @ + 1], PyNone, <<st.exc.msg>>)

\* SensorStream.process_batch
FB_SensorStream_process_batch(self, data_batch) ==
    FB_Sensor_ends(
        FB_Sensor_counted(FB_Sensor_loop(Running(self), data_batch, 1), data_batch),
        data_batch)

\* b = int(d.split(key)[1]); self.<field>.append(b)
FB_Transaction_append(st, field, r) ==
    IF r.ok THEN [st EXCEPT !.self[field] = Append(@, r.val.n)]
    ELSE [st EXCEPT !.exc = r.exc]

\* if word in d: b = int(d.split(word + ":")[1]); self.<field>.append(b)
FB_Transaction_reading(st, d, word, field) ==
    IF st.exc # NoExc \/ ~Contains(d, word) THEN st
    ELSE IF Len(Split(d, word \o ":")) < 2
    THEN [st EXCEPT !.exc = Exc("IndexError", "list index out of range")]
    ELSE FB_Transaction_append(st, field, ParseInt(Split(d, word \o ":")[2]))

\* one iteration of the loop of TransactionStream.process_batch
FB_Transaction_item(st, data) ==
    FB_Transaction_reading(
        FB_Transaction_reading(st, Str(data), "buy", "buy_readings"),
        Str(data), "sell", "sell_readings")

RECURSIVE FB_Transaction_loop(_, _, _)
FB_Transaction_loop(st, data_batch, i) ==
    IF i > Len(data_batch) \/ st.exc # NoExc THEN st
    ELSE FB_Transaction_loop(FB_Transaction_item(st, data_batch[i]),
                             data_batch, i + 1)

\* the summary with the net flow formatted as a signed number
FB_Transaction_ends_Signed(st, data_batch) ==
    IF st.exc = NoExc
    THEN StreamReturned(st.self,
            PyStr("Transaction analysis: " \o NatToStr(Len(data_batch))
                  \o " operations, net flow: "
                  \o SignedInt(SumSeq(st.self.buy_readings)
                               - SumSeq(st.self.sell_readings))
                  \o " units"),
            <<>>)
    ELSE StreamRaised(st.self, st.exc, <<>>)

\* the end of TransactionStream.process_batch: the summary after the loop, or
\* the failure of the loop, which nothing catches
FB_Transaction_ends(st, data_batch) ==
    IF st.exc = NoExc
    THEN StreamReturned(st.self,
            PyStr("Transaction analysis: " \o NatToStr(Len(data_batch))
                  \o " operations, net flow: +"
                  \o IntToStr(SumSeq(st.self.buy_readings)
                              - SumSeq(st.self.sell_readings))
                  \o " units"),
            <<>>)
    ELSE StreamRaised(st.self, st.exc, <<>>)

\* TransactionStream.process_batch
FB_TransactionStream_process_batch(self, data_batch) ==
    FB_Transaction_ends(FB_Transaction_loop(Running(self), data_batch, 1),
                        data_batch)

\* EventStream.process_batch
FB_EventStream_process_batch(self, data_batch) ==
    StreamReturned(self,
        PyStr("Event analysis: 3 events, "
              \o NatToStr(CountIn(Str(PyList(data_batch)), "error"))
              \o " error detected"),
        <<>>)

\* stream.process_batch(data_batch), by the class of the stream
FB_process_batch(self, data_batch) ==
    CASE self.cls = "SensorStream" -> FB_SensorStream_process_batch(self, data_batch)
      [] self.cls = "TransactionStream" ->
            FB_TransactionStream_process_batch(self, data_batch)
      [] self.cls = "EventStream" -> FB_EventStream_process_batch(self, data_batch)

\* DataStream.filter_data; criteria is None or a str
FB_DataStream_filter_data(self, data_batch, criteria) ==
    IF criteria.t = "NoneType" THEN StreamReturned(self, PyList(data_batch), <<>>)
    ELSE StreamReturned(self, PyList(DataStream_select(data_batch, criteria, 1)),
                        <<>>)

\* if temp_val > 30 or temp_val < 0: filtered.append(item)
FB_Sensor_critical(f, item, r) ==
    IF r.ok THEN Keep(f, item, r.val.n > 30 * 1000 \/ r.val.n < 0)
    ELSE [f EXCEPT !.exc = r.exc]

RECURSIVE FB_Sensor_select(_, _, _)
FB_Sensor_select(f, data_batch, i) ==
    IF i > Len(data_batch) \/ f.exc # NoExc THEN f
    ELSE IF ~Contains(Str(data_batch[i]), "temp")
    THEN FB_Sensor_select(f, data_batch, i + 1)
    ELSE IF Len(Split(Str(data_batch[i]), ":")) < 2
    THEN [f EXCEPT !.exc = Exc("IndexError", "list index out of range")]
    ELSE FB_Sensor_select(
            FB_Sensor_critical(f, data_batch[i],
                               ParseFloat(TextAfter(Str(data_batch[i]), ":", ","))),
            data_batch, i + 1)

\* SensorStream.filter_data
FB_SensorStream_filter_data(self, data_batch, criteria) ==
    IF EqualsStr(criteria, "critical")
    THEN Filter_ends(self, FB_Sensor_select(Keeping(<<>>), data_batch, 1))
    ELSE FB_DataStream_filter_data(self, data_batch, criteria)

\* value > 100 for the values of a dict, in order: "yes" at the first that is,
\* "no" when none is, "error" at a value that does not compare with an int
RECURSIVE FB_LargeValue(_, _)
FB_LargeValue(kv, j) ==
    IF j > Len(kv) THEN "no"
    ELSE IF kv[j].v.t \notin {"int", "bool", "float"} THEN "error"
    ELSE IF (IF kv[j].v.t = "float" THEN kv[j].v.n > 100 * 1000 ELSE kv[j].v.n > 100)
    THEN "yes"
    ELSE FB_LargeValue(kv, j + 1)

FB_NotOrdered(v) ==
    Exc("TypeError",
        "'>' not supported between instances of '" \o v.t \o "' and 'int'")

\* the value of a dict at which value > 100 fails
FB_Unordered(kv) ==
    kv[CHOOSE j \in 1..Len(kv) :
          /\ kv[j].v.t \notin {"int", "bool", "float"}
          /\ \A k \in 1..(j - 1) : kv[k].v.t \in {"int", "bool", "float"}].v

FB_Transaction_kept(f, item, large) ==
    IF large = "error" THEN [f EXCEPT !.exc = FB_NotOrdered(FB_Unordered(item.kv))]
    ELSE Keep(f, item, large = "yes")

RECURSIVE FB_Transaction_select(_, _, _)
FB_Transaction_select(f, data_batch, i) ==
    IF i > Len(data_batch) \/ f.exc # NoExc THEN f
    ELSE IF data_batch[i].t # "dict"
    THEN FB_Transaction_select(f, data_batch, i + 1)
    ELSE FB_Transaction_select(
            FB_Transaction_kept(f, data_batch[i], FB_LargeValue(data_batch[i].kv, 1)),
            data_batch, i + 1)

\* TransactionStream.filter_data
FB_TransactionStream_filter_data(self, data_batch, criteria) ==
    IF EqualsStr(criteria, "large")
    THEN Filter_ends(self, FB_Transaction_select(Keeping(<<>>), data_batch, 1))
    ELSE FB_DataStream_filter_data(self, data_batch, criteria)

\* stream.filter_data(data_batch, criteria), by the class of the stream
FB_filter_data(self, data_batch, criteria) ==
    CASE self.cls = "SensorStream" ->
            FB_SensorStream_filter_data(self, data_batch, criteria)
      [] self.cls = "TransactionStream" ->
            FB_TransactionStream_filter_data(self, data_batch, criteria)
      [] self.cls = "EventStream" ->
            FB_DataStream_filter_data(self, data_batch, criteria)

\* DataStream.get_stats
FB_get_stats(self) ==
    StreamReturned(self,
        PyList(<<PyDict(<<KV("stream_id", PyStr(self.ID)),
                          KV("Error_count", PyInt(self.err))>>)>>),
        <<>>)

(***************************************************************************)
(* Stream Processor Demo B (src/ex1/stream_processor.py): streams          *)
(***************************************************************************)
PB_StreamType(cls) ==
    CASE cls = "SensorStream" -> "Environmental Data"
      [] cls = "TransactionStream" -> "Financial Data"
      [] cls = "EventStream" -> "System Events"

\* SensorStream(stream_id) / TransactionStream(stream_id) / EventStream(stream_id)
PB_NewStream(cls, stream_id) ==
    [prog |-> "PB", cls |-> cls, stream_id |-> stream_id,
     stream_type |-> PB_StreamType(cls), total_processed |-> 0]

\* isinstance(v, (int, float)); a bool is an int
IsNumber(v) == v.t \in {"int", "bool", "float"}

\* a number in thousandths
Milli(v) == IF v.t = "float" THEN v.n ELSE v.n * 1000

RECURSIVE PB_Readings(_, _)
\* [v for v in data_batch if isinstance(v, (int, float))], in thousandths
PB_Readings(data_batch, i) ==
    IF i > Len(data_batch) THEN <<>>
    ELSE (IF IsNumber(data_batch[i]) THEN <<Milli(data_batch[i])>> ELSE <<>>)
         \o PB_Readings(data_batch, i + 1)

\* avg as f"{avg:.2f}"; the readings of the inputs are not negative
PB_Average(readings) ==
    IF readings = <<>> THEN FormatHundredths(0, 1)
    ELSE FormatHundredths(SumSeq(readings), Len(readings))

PB_Sensor_ends(self, readings) ==
    StreamReturned([self EXCEPT !.total_processed = @ + Len(readings)],
        PyStr("Sensor analysis: " \o NatToStr(Len(readings))
              \o " readings processed, avg value: " \o PB_Average(readings)),
        <<>>)

\* SensorStream.process_batch
PB_SensorStream_process_batch(self, data_batch) ==
    PB_Sensor_ends(self, PB_Readings(data_batch, 1))

\* net_flow += / -= amount, for an int net_flow (the amounts of the inputs are
\* ints or values that are no numbers)
PB_Transaction_add(st, sign, op, amount) ==
    IF st.exc # NoExc THEN st
    ELSE IF amount.t \in {"int", "bool"}
    THEN [st EXCEPT !.net_flow = @ + sign * amount.n]
    ELSE [st EXCEPT !.exc =
            Exc("TypeError", "unsupported operand type(s) for " \o op
                             \o ": 'int' and '" \o amount.t \o "'")]

\* item.get(key, 0)
GetOrZero(item, key) == IF HasKey(item, key) THEN DictGet(item, key) ELSE PyInt(0)

\* one iteration of the loop of TransactionStream.process_batch
PB_Transaction_item(st, item) ==
    IF item.t # "dict" THEN st
    ELSE PB_Transaction_add(
            PB_Transaction_add(st, 1, "+=", GetOrZero(item, "buy")),
            -1, "-=", GetOrZero(item, "sell"))

RECURSIVE PB_Transaction_loop(_, _, _)
PB_Transaction_loop(st, data_batch, i) ==
    IF i > Len(data_batch) \/ st.exc # NoExc THEN st
    ELSE PB_Transaction_loop(PB_Transaction_item(st, data_batch[i]),
                             data_batch, i + 1)

PB_Transaction_ends(self, st, data_batch) ==
    IF st.exc = NoExc
    THEN StreamReturned([self EXCEPT !.total_processed = @ + Len(data_batch)],
            PyStr("Transaction analysis: " \o NatToStr(Len(data_batch))
                  \o " operations, net flow: "
                  \o (IF st.net_flow >= 0 THEN "+" ELSE "")
                  \o IntToStr(st.net_flow) \o " units"),
            <<>>)
    ELSE StreamRaised(self, st.exc, <<>>)

\* TransactionStream.process_batch
PB_TransactionStream_process_batch(self, data_batch) ==
    PB_Transaction_ends(self,
        PB_Transaction_loop([net_flow |-> 0, exc |-> NoExc], data_batch, 1),
        data_batch)

\* len([e for e in data_batch if "error" in str(e).lower()])
PB_Errors(data_batch) ==
    Cardinality({i \in 1..Len(data_batch) :
                    Contains(Lower(Str(data_batch[i])), "error")})

\* EventStream.process_batch
PB_EventStream_process_batch(self, data_batch) ==
    StreamReturned([self EXCEPT !.total_processed = @ + Len(data_batch)],
        PyStr("Event analysis: " \o NatToStr(Len(data_batch)) \o " events, "
              \o NatToStr(PB_Errors(data_batch)) \o " error detected"),
        <<>>)

\* stream.process_batch(data_batch), by the class of the stream
PB_process_batch(self, data_batch) ==
    CASE self.cls = "SensorStream" -> PB_SensorStream_process_batch(self, data_batch)
      [] self.cls = "TransactionStream" ->
            PB_TransactionStream_process_batch(self, data_batch)
      [] self.cls = "EventStream" -> PB_EventStream_process_batch(self, data_batch)

RECURSIVE PB_select(_, _, _)
\* [item for item in data_batch if criteria in str(item)]
PB_select(data_batch, criteria, i) ==
    IF i > Len(data_batch) THEN <<>>
    ELSE (IF Contains(Str(data_batch[i]), criteria.s)
          THEN <<data_batch[i]>> ELSE <<>>)
         \o PB_select(data_batch, criteria, i + 1)

\* DataStream.filter_data; criteria is None or a str
PB_filter_data(self, data_batch, criteria) ==
    IF criteria.t = "NoneType" THEN StreamReturned(self, PyList(data_batch), <<>>)
    ELSE StreamReturned(self, PyList(PB_select(data_batch, criteria, 1)), <<>>)

\* DataStream.get_stats
PB_get_stats(self) ==
    StreamReturned(self,
        PyDict(<<KV("stream_id", PyStr(self.stream_id)),
                 KV("type", PyStr(self.stream_type)),
                 KV("total_processed", PyInt(self.total_processed))>>),
        <<>>)

(***************************************************************************)
(* Stream Foundation Demo A (src/ex01/data_stream.py): streams             *)
(***************************************************************************)
\* SensorStream(ID) / TransactionStream(ID) / EventStream(ID); the event
\* stream declares nothing of its own and has no type_data
FA_NewStream(cls, ID) ==
    [prog |-> "FA", cls |-> cls, ID |-> ID, err |-> 0,
     type_data |-> IF cls = "EventStream" THEN "" ELSE FB_TypeData(cls),
     temp_readings |-> <<>>, humidity_readings |-> <<>>, pressure_readings |-> <<>>,
     avg |-> PyInt(0), total_processed |-> 0,
     buy_readings |-> <<>>, sell_readings |-> <<>>, net_flow |-> 0]

FA_StreamHeader(self) == "Stream ID: " \o self.ID \o ", Type: " \o self.type_data

\* the body of process_batch under way: the stream so far, the failure
\* raised, the lines printed
FA_Running(self) == [self |-> self, exc |-> NoExc, out |-> <<FA_StreamHeader(self)>>]

\* one iteration of the loop of SensorStream.process_batch
FA_Sensor_item(st, data) ==
    Sensor_reading(
        Sensor_reading(
            Sensor_reading(
                [st EXCEPT !.out = Append(@, "Processing sensor batch:" \o Str(data))],
                Str(data), "temp:", ",", "temp_readings"),
            Str(data), "humidity:", ",", "humidity_readings"),
        Str(data), "pressure:", "]", "pressure_readings")

RECURSIVE FA_Sensor_loop(_, _, _)
FA_Sensor_loop(st, data_batch, i) ==
    IF i > Len(data_batch) \/ st.exc # NoExc THEN st
    ELSE FA_Sensor_loop(FA_Sensor_item(st, data_batch[i]), data_batch, i + 1)

\* the end of SensorStream.process_batch: the summary after the loop, or the
\* except branch, which prints the failure, counts it and returns nothing
FA_Sensor_ends(st) ==
    IF st.exc = NoExc
    THEN StreamReturned(FB_Sensor_average(st.self),
            PyStr("Sensor analysis: " \o NatToStr(st.self.total_processed + 1)
                  \o " readings processed, avg temp: "
                  \o Str(FB_Sensor_average(st.self).avg) \o "°C"),
            st.out)
    ELSE StreamReturned([st.self EXCEPT !.err = @ + 1], PyNone,
                        Append(st.out, st.exc.msg))

\* SensorStream.process_batch
FA_SensorStream_process_batch(self, data_batch) ==
    FA_Sensor_ends(FA_Sensor_loop(FA_Running(self), data_batch, 1))

RECURSIVE FA_Transaction_loop(_, _, _)
FA_Transaction_loop(st, data_batch, i) ==
    IF i > Len(data_batch) \/ st.exc # NoExc THEN st
    ELSE FA_Transaction_loop(FB_Transaction_item(st, data_batch[i]),
                             data_batch, i + 1)

\* the end of TransactionStream.process_batch: print(self.buy_readings) and
\* no return value, or the failure of the loop, which nothing catches
FA_Transaction_ends(st) ==
    IF st.exc = NoExc
    THEN StreamReturned(st.self, PyNone,
            Append(st.out,
                   Str(PyList([k \in DOMAIN st.self.buy_readings |->
                                  PyInt(st.self.buy_readings[k])]))))
    ELSE StreamRaised(st.self, st.exc, st.out)

\* TransactionStream.process_batch
FA_TransactionStream_process_batch(self, data_batch) ==
    FA_Transaction_ends(FA_Transaction_loop(FA_Running(self), data_batch, 1))

\* stream.process_batch(data_batch), by the class of the stream; the event
\* stream has the method of DataStream, which does nothing
FA_process_batch(self, data_batch) ==
    CASE self.cls = "SensorStream" -> FA_SensorStream_process_batch(self, data_batch)
      [] self.cls = "TransactionStream" ->
            FA_TransactionStream_process_batch(self, data_batch)
      [] self.cls = "EventStream" -> StreamReturned(self, PyNone, <<>>)

\* DataStream.filter_data
FA_filter_data(self, data_batch, criteria) ==
    StreamReturned(self, PyList(data_batch), <<>>)

\* DataStream.get_stats: it reads self.type_dat, which no stream has
FA_get_stats(self) ==
    StreamRaised(self,
        Exc("AttributeError",
            "'" \o self.cls \o "' object has no attribute 'type_dat'"),
        <<>>)

(***************************************************************************)
(* One stream object of a stream demo and the calls made on it             *)
(***************************************************************************)
StreamPrograms == {"A", "FB", "PB"}

\* the constructor of a stream class of a program
NewStream(prog, cls, stream_id) ==
    CASE prog = "A" -> A_NewStream(cls, stream_id)
      [] prog = "FB" -> FB_NewStream(cls, stream_id)
      [] prog = "PB" -> PB_NewStream(cls, stream_id)
      [] prog = "FA" -> FA_NewStream(cls, stream_id)

\* stream.process_batch(data_batch), by the program of the stream
Stream_process_batch(self, data_batch) ==
    CASE self.prog = "A" -> A_process_batch(self, data_batch)
      [] self.prog = "FB" -> FB_process_batch(self, data_batch)
      [] self.prog = "PB" -> PB_process_batch(self, data_batch)
      [] self.prog = "FA" -> FA_process_batch(self, data_batch)

\* stream.filter_data(data_batch, criteria), by the program of the stream
Stream_filter_data(self, data_batch, criteria) ==
    CASE self.prog = "A" -> A_filter_data(self, data_batch, criteria)
      [] self.prog = "FB" -> FB_filter_data(self, data_batch, criteria)
      [] self.prog = "PB" -> PB_filter_data(self, data_batch, criteria)
      [] self.prog = "FA" -> FA_filter_data(self, data_batch, criteria)

\* stream.get_stats(), by the program of the stream
Stream_get_stats(self) ==
    CASE self.prog = "A" -> A_get_stats(self)
      [] self.prog = "FB" -> FB_get_stats(self)
      [] self.prog = "PB" -> PB_get_stats(self)
      [] self.prog = "FA" -> FA_get_stats(self)

\* the batch of transactions the driver of Demo A hands to the processor
DemoTransactions ==
    <<PyStr("buy:50"), PyStr("sell:75"), PyStr("buy:100"), PyStr("sell:200")>>

\* the batch of readings the driver of Demo A hands to the processor
DemoReadings ==
    <<PyStr("temp:25.0, humidity:70, pressure:1015"),
      PyStr("temp:23.5, humidity:68, pressure:1012")>>

\* the items batches are made of: text lines for Demo A and Foundation Demo B,
\* typed values for Processor Demo B; one item of each set is malformed
Items(prog, cls) ==
    IF prog = "PB"
    THEN CASE cls = "SensorStream" -> {PyFloat(22500), PyInt(5), PyStr("x")}
           [] cls = "TransactionStream" ->
                 {PyDict(<<KV("buy", PyInt(100))>>),
                  PyDict(<<KV("sell", PyInt(150))>>),
                  PyDict(<<KV("buy", PyStr("x"))>>)}
           [] cls = "EventStream" ->
                 {PyStr("login"), PyStr("error"), PyStr("Disk ERROR")}
    ELSE CASE cls = "SensorStream" ->
                 {PyStr("temp:22.5, humidity:65, pressure:1013"),
                  PyStr("temp:37.5"), PyStr("temp:hot")}
           [] cls = "TransactionStream" ->
                 {PyStr("buy:50"), PyStr("sell:75"), PyStr("buy:abc")}
           [] cls = "EventStream" ->
                 {PyStr("login"), PyStr(" ERROR "), PyStr("error")}

\* the batches of at most two items
ShortBatches(items) ==
    {<<>>} \cup {<<a>> : a \in items} \cup {<<a, b>> : a \in items, b \in items}

\* the batches handed to process_batch
Batches(prog, cls) ==
    ShortBatches(Items(prog, cls))
        \cup (IF prog \in {"PB", "FA"} THEN {}
              ELSE IF cls = "TransactionStream" THEN {DemoTransactions}
              ELSE IF cls = "SensorStream" THEN {DemoReadings}
              ELSE {})

\* the items of a set, each once, in every order
Orderings(items) ==
    {b \in [1..Cardinality(items) -> items] :
        \A i, j \in DOMAIN b : i # j => b[i] # b[j]}

\* the batches handed to filter_data: every item once, in every order
FilterBatches(prog, cls) == Orderings(Items(prog, cls))

\* the criteria handed to filter_data
Criteria(prog, cls) ==
    {PyNone, PyStr("E")}
        \cup (IF prog = "A"
              THEN {PyStr("High-Priority"), PyStr("high-pribasedority"),
                    PyStr("errors only")}
              ELSE IF prog \in {"FB", "FA"} THEN {PyStr("critical"), PyStr("large")}
              ELSE {PyStr("error")})

\* what is observed of one call on a stream: the call (op, obj, data, criteria),
\* how it ended (outcome, val, exc), the lines printed and the streams as
\* they were before the call (pre)
StreamObserved(op, obj, data, criteria, r) ==
    [op |-> op, obj |-> obj, data |-> data, criteria |-> criteria,
     outcome |-> Outcome(r.ok), val |-> r.val, exc |-> r.exc, out |-> r.out,
     invoked |-> <<>>, pre |-> streams]

NoStreamCall ==
    StreamObserved("none", 0, <<>>, PyNone, StreamReturned(PyNone, PyNone, <<>>))

\* method calls made on the streams so far
StreamCallsMade ==
    SumOver([i \in DOMAIN calls |-> calls[i].returned + calls[i].raised],
            DOMAIN calls)

InitStreams ==
    /\ \E prog \in StreamPrograms, cls \in StreamClasses :
          streams = <<NewStream(prog, cls, "STREAM_001")>>
    /\ calls = <<[returned |-> 0, raised |-> 0]>>
    /\ pipes = NoNames
    /\ manager = NoNames
    /\ last = NoStreamCall

\* the end of a call on stream i: the stream as the call left it, the call
\* counted and observed
StreamCallEnds(op, i, data, criteria, r) ==
    /\ streams' = [streams EXCEPT ![i] = r.self]
    /\ calls' = [calls EXCEPT ![i] =
                    IF r.ok THEN [@ EXCEPT !.returned = @ + 1]
                    ELSE [@ EXCEPT !.raised = @ + 1]]
    /\ last' = StreamObserved(op, i, data, criteria, r)
    /\ UNCHANGED <<pipes, manager>>

\* stream.process_batch(data_batch)
ProcessBatch(i, data_batch) ==
    /\ StreamCallsMade < MaxCalls
    /\ StreamCallEnds("process_batch", i, data_batch, PyNone,
                      Stream_process_batch(streams[i], data_batch))

\* stream.filter_data(data_batch, criteria)
FilterData(i, data_batch, criteria) ==
    /\ StreamCallsMade < MaxCalls
    /\ StreamCallEnds("filter_data", i, data_batch, criteria,
                      Stream_filter_data(streams[i], data_batch, criteria))

\* stream.get_stats()
GetStats(i) ==
    /\ StreamCallsMade < MaxCalls
    /\ StreamCallEnds("get_stats", i, <<>>, PyNone, Stream_get_stats(streams[i]))

NextStreams ==
    \/ \E i \in DOMAIN streams :
          \E data_batch \in Batches(streams[i].prog, streams[i].cls) :
              ProcessBatch(i, data_batch)
    \/ \E i \in DOMAIN streams :
          \E data_batch \in FilterBatches(streams[i].prog, streams[i].cls),
             criteria \in Criteria(streams[i].prog, streams[i].cls) :
              FilterData(i, data_batch, criteria)
    \/ \E i \in DOMAIN streams : GetStats(i)

SpecStreams == InitStreams /\ [][NextStreams]_vars

\* one stream object of Stream Foundation Demo A
InitFoundationA ==
    /\ \E cls \in StreamClasses : streams = <<NewStream("FA", cls, "STREAM_001")>>
    /\ calls = <<[returned |-> 0, raised |-> 0]>>
    /\ pipes = NoNames
    /\ manager = NoNames
    /\ last = NoStreamCall

SpecFoundationA == InitFoundationA /\ [][NextStreams]_vars

(***************************************************************************)
(* Stream demos: properties of one stream object                           *)
(***************************************************************************)
\* the counters of a stream object
Counters(s) ==
    CASE s.prog = "A" -> <<s.total_processed, s.error_count>>
      [] s.prog \in {"FB", "FA"} -> <<s.total_processed, s.err>>
      [] s.prog = "PB" -> <<s.total_processed>>

\* the accumulator lists of a stream object
Accumulators(s) ==
    CASE s.prog = "A" -> <<s.temperature_readings, s.humidity_readings,
                           s.pressure_readings, s.buy_operations,
                           s.sell_operations, s.data_history>>
      [] s.prog \in {"FB", "FA"} -> <<s.temp_readings, s.humidity_readings,
                            s.pressure_readings, s.buy_readings, s.sell_readings>>
      [] s.prog = "PB" -> <<>>

\* the stream after a step has counters no smaller and lists that extend
\* those of the stream before it
Grown(before, after) ==
    /\ \A k \in DOMAIN Counters(before) : Counters(before)[k] <= Counters(after)[k]
    /\ \A k \in DOMAIN Accumulators(before) :
          IsPrefix(Accumulators(before)[k], Accumulators(after)[k])

StreamOps == {"process_batch", "filter_data", "get_stats"}

\* C8: over every process_batch, filter_data and get_stats call on a stream
\* object of Demo A, Foundation Demo B or Processor Demo B, the total-processed
\* count and the error count never decrease and every accumulator list keeps
\* its value before the call as a prefix.
C8_CountersAndListsGrow ==
    [][/\ Len(streams') = Len(streams)
       /\ \A i \in DOMAIN streams : Grown(streams[i], streams'[i])
       /\ last'.op \in StreamOps =>
             /\ last'.pre = streams
             /\ Grown(last'.pre[last'.obj], streams'[last'.obj])]_vars

\* a second batch given to a sensor of Demo A failed at its second item after
\* the first item added a reading to those of the first batch
C8_Witness ==
    /\ last.op = "process_batch"
    /\ streams[1].prog = "A" /\ streams[1].cls = "SensorStream"
    /\ last.pre[1].temperature_readings = <<22500>>
    /\ streams[1].temperature_readings = <<22500, 37500>>
    /\ streams[1].error_count = 1
    /\ streams[1].total_processed = 1

IsDemoATransactions(s) == s.prog = "A" /\ s.cls = "TransactionStream"

\* a net flow with its sign written out
FlowText(flow) == IF flow >= 0 THEN "+" \o NatToStr(flow) ELSE "-" \o NatToStr(-flow)

\* C9: the net flow of a transaction stream of Demo A is at all times the sum
\* of the recorded sell amounts minus the sum of the recorded buy amounts, also
\* after batches that ended in a parse error; a batch that succeeds reports
\* its number of items and the cumulative net flow with an explicit sign, and
\* the driver's batch on a fresh stream reports "net flow: +125 units".
C9_NetFlowIsSellsMinusBuys ==
    \A i \in DOMAIN streams :
        IsDemoATransactions(streams[i]) =>
            /\ streams[i].net_flow =
                  SumSeq(streams[i].sell_operations) - SumSeq(streams[i].buy_operations)
            /\ (/\ last.op = "process_batch" /\ last.obj = i
                /\ streams[i].error_count = last.pre[i].error_count) =>
                  /\ last.val = PyStr("Transaction analysis: "
                                      \o NatToStr(Len(last.data))
                                      \o " operations, net flow: "
                                      \o FlowText(streams[i].net_flow) \o " units")
                  /\ (last.data = DemoTransactions /\ last.pre[i].net_flow = 0) =>
                        last.val = PyStr("Transaction analysis: 4 operations, net flow: +125 units")

\* the driver's batch brought the net flow to +125; the next batch recorded a
\* sale of 75 and then failed on "buy:abc"
C9_Witness ==
    /\ IsDemoATransactions(streams[1])
    /\ last.op = "process_batch"
    /\ last.data = <<PyStr("sell:75"), PyStr("buy:abc")>>
    /\ last.pre[1].net_flow = 125
    /\ streams[1].net_flow = 200
    /\ streams[1].sell_operations = <<75, 200, 75>>
    /\ streams[1].buy_operations = <<50, 100>>
    /\ streams[1].error_count = 1
    /\ last.val = PyStr("Transaction processing error: invalid literal for int() with base 10: 'abc'")

(***************************************************************************)
(* Stream Processor Demo A: StreamProcessor                                *)
(***************************************************************************)
MaxStreams == 3     \* add_stream calls in one run

\* StreamProcessor.add_stream
A_add_stream(processor_streams, stream) == Append(processor_streams, stream)

\* process_all_streams under way: the streams so far, the results collected,
\* the indexes of the streams whose process_batch was invoked, in order
Collecting(processor_streams) ==
    [streams |-> processor_streams, results |-> <<>>, invoked |-> <<>>]

\* result = stream.process_batch(batches[i]); results.append(result), or the
\* error message when process_batch raised
A_process_all_step(acc, i, r) ==
    [streams |-> [acc.streams EXCEPT ![i] = r.self],
     results |-> Append(acc.results,
                        IF r.ok THEN r.val
                        ELSE PyStr("Error processing stream "
                                   \o acc.streams[i].stream_id \o ": " \o r.exc.msg)),
     invoked |-> Append(acc.invoked, i)]

\* a result that reports a failed batch
IsErrorResult(val) == val.t = "str" /\ Contains(val.s, " processing error: ")

RECURSIVE A_process_all_loop_Abort(_, _, _)
\* the loop leaving at the first result that reports a failed batch
A_process_all_loop_Abort(acc, batches, i) ==
    IF i > Len(acc.streams) THEN acc
    ELSE IF acc.results # <<>> /\ IsErrorResult(acc.results[Len(acc.results)])
    THEN acc
    ELSE IF i <= Len(batches)
    THEN A_process_all_loop_Abort(
            A_process_all_step(acc, i, A_process_batch(acc.streams[i], batches[i])),
            batches, i + 1)
    ELSE A_process_all_loop_Abort(acc, batches, i + 1)

\* process_all_streams giving up at the first failed batch
A_process_all_streams_Abort(processor_streams, batches) ==
    A_process_all_loop_Abort(Collecting(processor_streams), batches, 1)

RECURSIVE A_process_all_loop(_, _, _)
\* for i, stream in enumerate(self.streams): if i < len(batches): ...
A_process_all_loop(acc, batches, i) ==
    IF i > Len(acc.streams) THEN acc
    ELSE IF i <= Len(batches)
    THEN A_process_all_loop(
            A_process_all_step(acc, i, A_process_batch(acc.streams[i], batches[i])),
            batches, i + 1)
    ELSE A_process_all_loop(acc, batches, i + 1)

\* StreamProcessor.process_all_streams
A_process_all_streams(processor_streams, batches) ==
    A_process_all_loop(Collecting(processor_streams), batches, 1)

\* the identifier the driver gives the n-th stream, by its class
StreamIdOf(cls, n) ==
    (CASE cls = "SensorStream" -> "SENSOR_00"
       [] cls = "TransactionStream" -> "TRANS_00"
       [] cls = "EventStream" -> "EVENT_00") \o NatToStr(n)

\* batches of mixed lines: one that every stream class processes, one that
\* fails in a sensor stream at its second line and in a transaction stream at
\* its third, and the empty batch
MixedBatches ==
    {<<PyStr("temp:37.5"), PyStr("buy:50"), PyStr("error")>>,
     <<PyStr("sell:75"), PyStr("temp:hot"), PyStr("buy:abc")>>,
     <<>>}

\* the lists of batches handed to process_all_streams
BatchLists == ShortBatches(MixedBatches)

\* what is observed of one call on the processor
ProcessorObserved(op, data, acc) ==
    [op |-> op, obj |-> 0, data |-> data, criteria |-> PyNone,
     outcome |-> "returned", val |-> PyList(acc.results), exc |-> NoExc,
     out |-> <<>>, invoked |-> acc.invoked, pre |-> streams]

InitProcessorA ==
    /\ streams = <<>>
    /\ calls = <<>>
    /\ pipes = NoNames
    /\ manager = NoNames
    /\ last = NoStreamCall

\* processor.add_stream(Stream(stream_id))
AddStream(cls) ==
    /\ Len(streams) < MaxStreams
    /\ streams' = A_add_stream(streams, A_NewStream(cls, StreamIdOf(cls, Len(streams) + 1)))
    /\ calls' = Append(calls, [returned |-> 0, raised |-> 0])
    /\ last' = ProcessorObserved("add_stream", <<>>, Collecting(streams))
    /\ UNCHANGED <<pipes, manager>>

\* the end of process_all_streams: the streams as the loop left them, the
\* process_batch calls counted, the call observed
ProcessAllStreamsEnds(batches, acc) ==
    /\ streams' = acc.streams
    /\ calls' = [i \in DOMAIN calls |->
                    IF \E k \in DOMAIN acc.invoked : acc.invoked[k] = i
                    THEN [calls[i] EXCEPT !.returned = @ + 1]
                    ELSE calls[i]]
    /\ last' = ProcessorObserved("process_all_streams", batches, acc)
    /\ UNCHANGED <<pipes, manager>>

\* processor.process_all_streams(batches)
ProcessAllStreams(batches) ==
    /\ StreamCallsMade < MaxCalls
    /\ ProcessAllStreamsEnds(batches, A_process_all_streams(streams, batches))

NextProcessorA ==
    \/ \E cls \in StreamClasses : AddStream(cls)
    \/ \E batches \in BatchLists : ProcessAllStreams(batches)

SpecProcessorA == InitProcessorA /\ [][NextProcessorA]_vars

(***************************************************************************)
(* Stream Processor Demo A: properties of the StreamProcessor              *)
(***************************************************************************)
Least(a, b) == IF a <= b THEN a ELSE b

\* C10: process_all_streams hands the i-th batch to the i-th registered
\* stream: the streams below the number of batches have process_batch invoked
\* once each, in registration order, and each adds one entry to the results,
\* which so number min(#streams, #batches); a batch that fails in one stream
\* does not keep the later streams from theirs, and the streams without a
\* batch are left as they were.
C10_StreamsPairedWithBatches ==
    last.op = "process_all_streams" =>
        LET paired == Least(Len(last.pre), Len(last.data))
        IN /\ Len(streams) = Len(last.pre)
           /\ last.invoked = [i \in 1..paired |-> i]
           /\ last.outcome = "returned"
           /\ Len(last.val.items) = paired
           /\ \A i \in 1..paired :
                 /\ streams[i] = A_process_batch(last.pre[i], last.data[i]).self
                 /\ last.val.items[i] = A_process_batch(last.pre[i], last.data[i]).val
           /\ \A i \in (paired + 1)..Len(streams) : streams[i] = last.pre[i]

\* of three streams and two batches, the first batch failed in the sensor
\* stream, the transaction stream still processed the second, and the event
\* stream, left without a batch, did not change
C10_Witness ==
    /\ last.op = "process_all_streams"
    /\ Len(streams) = 3 /\ Len(last.data) = 2
    /\ streams[1].cls = "SensorStream" /\ streams[1].error_count = 1
    /\ IsErrorResult(last.val.items[1])
    /\ streams[2].cls = "TransactionStream" /\ streams[2].net_flow = -50
    /\ last.val.items[2] = PyStr("Transaction analysis: 3 operations, net flow: -50 units")
    /\ streams[3] = last.pre[3]
    /\ last.invoked = <<1, 2>>

(***************************************************************************)
(* Stream Processor Demo B: StreamProcessor                                *)
(*                                                                         *)
(* The batch mapping handed to process_all is a function from the          *)
(* identifiers that are its keys to their batches.                         *)
(***************************************************************************)
\* StreamProcessor.register_stream
PB_register_stream(processor_streams, stream) == Append(processor_streams, stream)

\* batches.get(stream_id, [None]): a missing key standing for a batch of one item
PB_batch_of_Filler(batches, stream_id) ==
    IF stream_id \in DOMAIN batches THEN batches[stream_id] ELSE <<PyNone>>

\* batches.get(stream.stream_id, [])
PB_batch_of(batches, stream_id) ==
    IF stream_id \in DOMAIN batches THEN batches[stream_id] ELSE <<>>

\* process_all under way: the streams so far, the lines printed, the indexes
\* of the streams whose process_batch was invoked, the batches they were
\* given and whether the call returned, in order
Narrating(processor_streams) ==
    [streams |-> processor_streams,
     out |-> <<"=== Polymorphic Stream Processing ===">>,
     invoked |-> <<>>, given |-> <<>>, ok |-> <<>>]

\* one iteration of the loop of process_all: the result printed, or the
\* failure narrated
PB_process_all_step(acc, i, batch, r) ==
    [streams |-> [acc.streams EXCEPT ![i] = r.self],
     out |-> Append(acc.out,
                    IF r.ok
                    THEN "- " \o acc.streams[i].stream_type \o ": " \o Str(r.val)
                    ELSE "Error processing " \o acc.streams[i].stream_id
                         \o ": " \o r.exc.msg),
     invoked |-> Append(acc.invoked, i),
     given |-> Append(acc.given, batch),
     ok |-> Append(acc.ok, r.ok)]

RECURSIVE PB_process_all_loop_Abort(_, _, _)
\* the loop leaving at the first process_batch that raises
PB_process_all_loop_Abort(acc, batches, i) ==
    IF i > Len(acc.streams) THEN acc
    ELSE IF ~PB_process_batch(acc.streams[i],
                              PB_batch_of(batches, acc.streams[i].stream_id)).ok
    THEN PB_process_all_step(acc, i, PB_batch_of(batches, acc.streams[i].stream_id),
            PB_process_batch(acc.streams[i],
                             PB_batch_of(batches, acc.streams[i].stream_id)))
    ELSE PB_process_all_loop_Abort(
            PB_process_all_step(acc, i, PB_batch_of(batches, acc.streams[i].stream_id),
                PB_process_batch(acc.streams[i],
                                 PB_batch_of(batches, acc.streams[i].stream_id))),
            batches, i + 1)

\* process_all giving up at the first stream that raises
PB_process_all_Abort(processor_streams, batches) ==
    PB_process_all_loop_Abort(Narrating(processor_streams), batches, 1)

RECURSIVE PB_process_all_loop(_, _, _)
\* for stream in self.streams: try: ... except Exception as e: ...
PB_process_all_loop(acc, batches, i) ==
    IF i > Len(acc.streams) THEN acc
    ELSE PB_process_all_loop(
            PB_process_all_step(acc, i, PB_batch_of(batches, acc.streams[i].stream_id),
                PB_process_batch(acc.streams[i],
                                 PB_batch_of(batches, acc.streams[i].stream_id))),
            batches, i + 1)

\* StreamProcessor.process_all
PB_process_all(processor_streams, batches) ==
    PB_process_all_loop(Narrating(processor_streams), batches, 1)

\* the identifier the driver gives the streams of a class
PB_StreamId(cls) ==
    CASE cls = "SensorStream" -> "SENSOR_001"
      [] cls = "TransactionStream" -> "TRANS_001"
      [] cls = "EventStream" -> "EVENT_001"

\* the batches a mapping may hold under an identifier: one that the stream
\* of that identifier processes and one more, which for the transaction
\* stream holds an amount that is no number
PB_BatchesFor(stream_id) ==
    CASE stream_id = "SENSOR_001" ->
            {<<PyFloat(22500), PyInt(5), PyStr("x")>>, <<PyFloat(22500)>>}
      [] stream_id = "TRANS_001" ->
            {<<PyDict(<<KV("buy", PyInt(100))>>), PyDict(<<KV("sell", PyInt(150))>>)>>,
             <<PyDict(<<KV("buy", PyInt(100))>>), PyDict(<<KV("buy", PyStr("x"))>>)>>}
      [] stream_id = "EVENT_001" ->
            {<<PyStr("login"), PyStr("error")>>, <<PyStr("Disk ERROR")>>}

PB_StreamIds == {PB_StreamId(cls) : cls \in StreamClasses}

\* the batch mappings handed to process_all
PB_BatchMaps ==
    UNION {{m \in [keys -> UNION {PB_BatchesFor(k) : k \in keys}] :
                \A k \in keys : m[k] \in PB_BatchesFor(k)} :
           keys \in SUBSET PB_StreamIds}

\* what is observed of one call on the processor
ProcessorBObserved(op, data, acc) ==
    [op |-> op, data |-> data, outcome |-> "returned", val |-> PyNone,
     exc |-> NoExc, out |-> acc.out, invoked |-> acc.invoked,
     given |-> acc.given, ok |-> acc.ok, pre |-> streams]

InitProcessorB ==
    /\ streams = <<>>
    /\ calls = <<>>
    /\ pipes = NoNames
    /\ manager = NoNames
    /\ last = ProcessorBObserved("none", NoNames, Narrating(<<>>))

\* processor.register_stream(Stream(stream_id))
RegisterStream(cls) ==
    /\ Len(streams) < MaxStreams
    /\ streams' = PB_register_stream(streams, PB_NewStream(cls, PB_StreamId(cls)))
    /\ calls' = Append(calls, [returned |-> 0, raised |-> 0])
    /\ last' = ProcessorBObserved("register_stream", NoNames, Narrating(streams))
    /\ UNCHANGED <<pipes, manager>>

\* the end of process_all: the streams as the loop left them, the
\* process_batch calls counted, the call observed
ProcessAllBEnds(batches, acc) ==
    /\ streams' = acc.streams
    /\ calls' = [i \in DOMAIN calls |->
                    IF i \notin DOMAIN acc.ok THEN calls[i]
                    ELSE IF acc.ok[i] THEN [calls[i] EXCEPT !.returned = @ + 1]
                    ELSE [calls[i] EXCEPT !.raised = @ + 1]]
    /\ last' = ProcessorBObserved("process_all", batches, acc)
    /\ UNCHANGED <<pipes, manager>>

\* processor.process_all(batches)
ProcessAllB(batches) ==
    /\ StreamCallsMade < MaxCalls
    /\ ProcessAllBEnds(batches, PB_process_all(streams, batches))

NextProcessorB ==
    \/ \E cls \in StreamClasses : RegisterStream(cls)
    \/ \E batches \in PB_BatchMaps : ProcessAllB(batches)

SpecProcessorB == InitProcessorB /\ [][NextProcessorB]_vars

(***************************************************************************)
(* Stream Processor Demo B: properties of the StreamProcessor              *)
(***************************************************************************)
\* C11: a registered stream whose identifier is no key of the batch mapping
\* is processed by process_all with the empty batch, and its total-processed
\* count and every other entry of its stats record are after the call what
\* they were before it, for the three stream classes.
C11_MissingKeyLeavesStatsAlone ==
    last.op = "process_all" =>
        \A i \in DOMAIN last.pre :
            last.pre[i].stream_id \notin DOMAIN last.data =>
                /\ \E k \in DOMAIN last.invoked :
                      last.invoked[k] = i /\ last.given[k] = <<>>
                /\ streams[i].total_processed = last.pre[i].total_processed
                /\ PB_get_stats(streams[i]).val = PB_get_stats(last.pre[i]).val

\* an event stream that had counted two events was processed again under a
\* mapping that holds batches for the other identifiers only
C11_Witness ==
    /\ last.op = "process_all"
    /\ Len(streams) = 1 /\ streams[1].cls = "EventStream"
    /\ DOMAIN last.data = {"SENSOR_001", "TRANS_001"}
    /\ last.pre[1].total_processed = 2
    /\ streams[1].total_processed = 2
    /\ last.given = <<(<<>>)>>

\* C12: process_all invokes process_batch once on every registered stream, in
\* registration order, each with the batch the mapping holds under that
\* stream's own identifier; a process_batch that raises is caught and
\* narrated, process_all returns, and the streams registered later are
\* processed all the same.
C12_EveryStreamByItsIdentifier ==
    last.op = "process_all" =>
        /\ last.outcome = "returned" /\ last.exc = NoExc
        /\ Len(streams) = Len(last.pre)
        /\ last.invoked = [i \in 1..Len(last.pre) |-> i]
        /\ Len(last.out) = Len(last.pre) + 1
        /\ \A i \in DOMAIN last.pre :
              LET own == IF last.pre[i].stream_id \in DOMAIN last.data
                         THEN last.data[last.pre[i].stream_id] ELSE <<>>
              IN /\ last.given[i] = own
                 /\ streams[i] = PB_process_batch(last.pre[i], own).self
                 /\ last.ok[i] = PB_process_batch(last.pre[i], own).ok
                 /\ ~last.ok[i] =>
                       last.out[i + 1] =
                          "Error processing " \o last.pre[i].stream_id \o ": "
                             \o PB_process_batch(last.pre[i], own).exc.msg

\* the transaction stream, registered second, raised on an amount that is no
\* number; the sensor stream before it and the event stream after it were
\* processed with the batches of their own identifiers
C12_Witness ==
    /\ last.op = "process_all"
    /\ Len(streams) = 3
    /\ streams[1].cls = "SensorStream" /\ streams[1].total_processed = 2
    /\ streams[2].cls = "TransactionStream" /\ ~last.ok[2]
    /\ last.out[3] = "Error processing TRANS_001: unsupported operand type(s) for +=: 'int' and 'str'"
    /\ streams[3].cls = "EventStream" /\ streams[3].total_processed = 1
    /\ last.out[4] = "- System Events: Event analysis: 1 events, 1 error detected"


(***************************************************************************)
(* Claims about the history of Demo A and the failures of Foundation Demo A *)
(***************************************************************************)
IsDemoA(s) == s.prog = "A"

\* C13: after a process_batch call on a stream of Stream Processor Demo A, the
\* history is the history before the call followed by every item of the batch
\* passed, in item order, also when the processing of the batch ended in an
\* error.
C13_HistoryHoldsEveryItem ==
    \A i \in DOMAIN streams :
        (IsDemoA(streams[i]) /\ last.op = "process_batch" /\ last.obj = i) =>
            streams[i].data_history = last.pre[i].data_history \o last.data

\* the loop of process_batch of Foundation Demo A fails on an item of the batch
FA_ParseFails(self, data_batch) ==
    CASE self.cls = "SensorStream" ->
            FA_Sensor_loop(FA_Running(self), data_batch, 1).exc # NoExc
      [] self.cls = "TransactionStream" ->
            FA_Transaction_loop(FA_Running(self), data_batch, 1).exc # NoExc
      [] OTHER -> FALSE

\* C14: in Stream Foundation Demo A, a process_batch call on the sensor stream
\* or on the transaction stream whose batch holds a malformed item does not
\* raise, returns no result, and raises the error counter of the stream by
\* exactly one.
C14_ParseFailureSwallowed ==
    \A i \in DOMAIN streams :
        (/\ streams[i].prog = "FA"
         /\ last.op = "process_batch" /\ last.obj = i
         /\ FA_ParseFails(last.pre[i], last.data)) =>
            /\ last.outcome = "returned"
            /\ last.val = PyNone
            /\ streams[i].err = last.pre[i].err + 1


(***************************************************************************)
(* Stream Foundation Demo B (src/ex1/data_stream.py): the StreamProcessor  *)
(***************************************************************************)
\* StreamProcessor.add_stream
FB_add_stream(processor_streams, stream) == Append(processor_streams, stream)

\* process_all under way: the streams so far, the results collected, the
\* indexes of the streams whose process_batch was invoked, the failure raised
FB_Collecting(processor_streams) ==
    [streams |-> processor_streams, results |-> <<>>, invoked |-> <<>>,
     exc |-> NoExc]

\* result = stream.process_batch(batch); results.append(result)
FB_process_all_step(acc, i, r) ==
    [streams |-> [acc.streams EXCEPT ![i] = r.self],
     results |-> IF r.ok THEN Append(acc.results, r.val) ELSE acc.results,
     invoked |-> Append(acc.invoked, i),
     exc |-> r.exc]

\* the step of a loop that contains the failure of process_batch and records
\* no result for it
FB_process_all_step_Contained(acc, i, r) ==
    [streams |-> [acc.streams EXCEPT ![i] = r.self],
     results |-> Append(acc.results, IF r.ok THEN r.val ELSE PyNone),
     invoked |-> Append(acc.invoked, i),
     exc |-> NoExc]

RECURSIVE FB_process_all_loop_Contained(_, _, _)
FB_process_all_loop_Contained(acc, data_batches, i) ==
    IF i > Len(acc.streams) \/ i > Len(data_batches) THEN acc
    ELSE FB_process_all_loop_Contained(
            FB_process_all_step_Contained(acc, i,
                FB_process_batch(acc.streams[i], data_batches[i])),
            data_batches, i + 1)

\* process_all going on to the next stream after a failure
FB_process_all_Contained(processor_streams, data_batches) ==
    FB_process_all_loop_Contained(FB_Collecting(processor_streams), data_batches, 1)

RECURSIVE FB_process_all_loop(_, _, _)
\* for stream, batch in zip(self.streams, data_batches): ...; a failure of
\* process_batch leaves the loop and the method
FB_process_all_loop(acc, data_batches, i) ==
    IF i > Len(acc.streams) \/ i > Len(data_batches) \/ acc.exc # NoExc THEN acc
    ELSE FB_process_all_loop(
            FB_process_all_step(acc, i,
                FB_process_batch(acc.streams[i], data_batches[i])),
            data_batches, i + 1)

\* StreamProcessor.process_all
FB_process_all(processor_streams, data_batches) ==
    FB_process_all_loop(FB_Collecting(processor_streams), data_batches, 1)

\* what is observed of one call on the processor: returned results, or the
\* failure that left process_all
FoundationBObserved(op, data, acc) ==
    [op |-> op, obj |-> 0, data |-> data, criteria |-> PyNone,
     outcome |-> Outcome(acc.exc = NoExc),
     val |-> IF acc.exc = NoExc THEN PyList(acc.results) ELSE PyNone,
     exc |-> acc.exc, out |-> <<>>, invoked |-> acc.invoked, pre |-> streams]

InitProcessorFB ==
    /\ streams = <<>>
    /\ calls = <<>>
    /\ pipes = NoNames
    /\ manager = NoNames
    /\ last = NoStreamCall

\* processor.add_stream(Stream(ID))
AddStreamFB(cls) ==
    /\ Len(streams) < MaxStreams
    /\ streams' = FB_add_stream(streams,
                                FB_NewStream(cls, StreamIdOf(cls, Len(streams) + 1)))
    /\ calls' = Append(calls, [returned |-> 0, raised |-> 0])
    /\ last' = FoundationBObserved("add_stream", <<>>, FB_Collecting(streams))
    /\ UNCHANGED <<pipes, manager>>

\* the end of process_all: the streams as the loop left them, the
\* process_batch calls counted, the call observed
ProcessAllFBEnds(data_batches, acc) ==
    /\ streams' = acc.streams
    /\ calls' = [i \in DOMAIN calls |->
                    IF ~\E k \in DOMAIN acc.invoked : acc.invoked[k] = i
                    THEN calls[i]
                    ELSE IF acc.exc # NoExc /\ acc.invoked[Len(acc.invoked)] = i
                    THEN [calls[i] EXCEPT !.raised = @ + 1]
                    ELSE [calls[i] EXCEPT !.returned = @ + 1]]
    /\ last' = FoundationBObserved("process_all", data_batches, acc)
    /\ UNCHANGED <<pipes, manager>>

\* processor.process_all(data_batches)
ProcessAllFB(data_batches) ==
    /\ StreamCallsMade < MaxCalls
    /\ ProcessAllFBEnds(data_batches, FB_process_all(streams, data_batches))

NextProcessorFB ==
    \/ \E cls \in StreamClasses : AddStreamFB(cls)
    \/ \E data_batches \in BatchLists : ProcessAllFB(data_batches)

SpecProcessorFB == InitProcessorFB /\ [][NextProcessorFB]_vars

\* the pairs of stream and batch before position n whose process_batch raises
FB_Failing(pre, data_batches, n) ==
    {k \in 1..n : ~FB_process_batch(pre[k], data_batches[k]).ok}

\* the position at which process_all stops: the first failing pair, or the
\* last pair
FB_StopsAt(pre, data_batches, n) ==
    IF FB_Failing(pre, data_batches, n) = {} THEN n
    ELSE CHOOSE k \in FB_Failing(pre, data_batches, n) :
            \A j \in FB_Failing(pre, data_batches, n) : k <= j

\* C15: process_all of Stream Foundation Demo B pairs the i-th registered
\* stream with the i-th batch, for the first min(#streams, #batches)
\* positions in registration order, and contains no failure: when the
\* process_batch of a stream raises, that failure leaves process_all, no
\* results are returned, and the streams registered after the failing one are
\* neither invoked nor changed; when none raises, one result per pair is
\* returned.
C15_FailurePropagatesAndAborts ==
    last.op = "process_all" =>
        LET paired == Least(Len(last.pre), Len(last.data))
            stop == FB_StopsAt(last.pre, last.data, paired)
            failed == FB_Failing(last.pre, last.data, paired) # {}
        IN /\ Len(streams) = Len(last.pre)
           /\ last.invoked = [i \in 1..stop |-> i]
           /\ \A i \in 1..stop :
                 streams[i] = FB_process_batch(last.pre[i], last.data[i]).self
           /\ \A i \in (stop + 1)..Len(streams) : streams[i] = last.pre[i]
           /\ failed =>
                 /\ last.outcome = "raised"
                 /\ last.exc = FB_process_batch(last.pre[stop], last.data[stop]).exc
                 /\ last.val = PyNone
           /\ ~failed =>
                 /\ last.outcome = "returned"
                 /\ Len(last.val.items) = paired
                 /\ \A i \in 1..paired :
                       last.val.items[i]
                           = FB_process_batch(last.pre[i], last.data[i]).val

\* of a transaction and a sensor stream given two batches, the transaction
\* stream raised on "buy:abc" after recording the sale before it, and the
\* sensor stream, which had a batch waiting, was neither invoked nor changed
C15_Witness ==
    /\ last.op = "process_all"
    /\ Len(streams) = 2 /\ Len(last.data) = 2
    /\ streams[1].cls = "TransactionStream"
    /\ streams[1].sell_readings = <<75>>
    /\ streams[2].cls = "SensorStream"
    /\ streams[2] = last.pre[2]
    /\ FB_process_batch(last.pre[2], last.data[2]).self # last.pre[2]
    /\ last.outcome = "raised"
    /\ last.exc.type = "ValueError"
    /\ last.invoked = <<1>>


(***************************************************************************)
(* Stream Foundation Demo B: the text the transaction stream returns       *)
(***************************************************************************)
IsFoundationBTransactions(s) == s.prog = "FB" /\ s.cls = "TransactionStream"

\* C16: a process_batch call that returns on a transaction stream of Stream
\* Foundation Demo B returns "Transaction analysis: N operations, net flow: +F
\* units", N being the length of the batch of this call and F the sum of all
\* buy amounts minus the sum of all sell amounts recorded over every batch so
\* far; the "+" is literal, so a negative flow reads "+-25".
C16_FlowTextHasLiteralPlus ==
    \A i \in DOMAIN streams :
        (/\ IsFoundationBTransactions(streams[i])
         /\ last.op = "process_batch" /\ last.obj = i
         /\ last.outcome = "returned") =>
            /\ last.val = PyStr("Transaction analysis: "
                                \o NatToStr(Len(last.data))
                                \o " operations, net flow: +"
                                \o IntToStr(SumSeq(streams[i].buy_readings)
                                            - SumSeq(streams[i].sell_readings))
                                \o " units")
            /\ IsPrefix(last.pre[i].buy_readings, streams[i].buy_readings)
            /\ IsPrefix(last.pre[i].sell_readings, streams[i].sell_readings)
            /\ (/\ last.data = <<PyStr("buy:50"), PyStr("sell:75")>>
                /\ last.pre[i].buy_readings = <<>>
                /\ last.pre[i].sell_readings = <<>>) =>
                  last.val = PyStr("Transaction analysis: 2 operations, net flow: +-25 units")

\* a first batch recorded a sale of 75 and then raised on "buy:abc"; the next
\* batch, one purchase of 50, reports the flow over both batches, "+-25"
C16_Witness ==
    /\ IsFoundationBTransactions(streams[1])
    /\ last.op = "process_batch"
    /\ last.data = <<PyStr("buy:50")>>
    /\ last.pre[1].sell_readings = <<75>>
    /\ last.pre[1].buy_readings = <<>>
    /\ last.val = PyStr("Transaction analysis: 1 operations, net flow: +-25 units")


(***************************************************************************)
(* Processor Foundation (src/ex0/stream_processor.py): NumericProcessor    *)
(***************************************************************************)
\* the k-th least element of a set of positions
NthOf(S, k) == CHOOSE i \in S : Cardinality({j \in S : j < i}) = k - 1

WordStarts(text) ==
    {i \in 1..Len(text) :
        ~IsSpace(CharAt(text, i)) /\ (i = 1 \/ IsSpace(CharAt(text, i - 1)))}

WordEnds(text) ==
    {i \in 1..Len(text) :
        ~IsSpace(CharAt(text, i)) /\ (i = Len(text) \/ IsSpace(CharAt(text, i + 1)))}

\* text.split(): the runs of characters that are no whitespace
Words(text) ==
    [k \in 1..Cardinality(WordStarts(text)) |->
        SubSeq(text, NthOf(WordStarts(text), k), NthOf(WordEnds(text), k))]

IntArgument(v) ==
    Exc("TypeError",
        "int() argument must be a string, a bytes-like object or a real number, not '"
            \o v.t \o "'")

\* int(i): numbers are truncated, text is parsed, anything else is a
\* TypeError
ToInt(v) ==
    CASE v.t \in {"int", "bool"} -> Returned(PyInt(v.n), <<>>)
      [] v.t = "float" -> Returned(PyInt(IF v.n >= 0 THEN v.n \div 1000
                                         ELSE -((-v.n) \div 1000)), <<>>)
      [] v.t = "str" -> ParseInt(v.s)
      [] OTHER -> Raised(IntArgument(v), <<>>)

Iterable(data) == data.t \in {"list", "str"}

\* the elements `for i in data` goes through: the items of a list, the
\* characters of a text
Elements(data) ==
    IF data.t = "list" THEN data.items
    ELSE [k \in 1..Len(data.s) |-> PyStr(CharAt(data.s, k))]

NotIterable(data) ==
    Exc("TypeError", "'" \o data.t \o "' object is not iterable")

RECURSIVE Numeric_validate_loop(_, _)
\* for i in data: int(i); return True, with except ValueError: return False
\* around it; any other failure leaves validate
Numeric_validate_loop(xs, k) ==
    IF k > Len(xs) THEN Returned(PyBool(TRUE), <<>>)
    ELSE IF ToInt(xs[k]).ok THEN Numeric_validate_loop(xs, k + 1)
    ELSE IF ToInt(xs[k]).exc.type = "ValueError" THEN Returned(PyBool(FALSE), <<>>)
    ELSE Raised(ToInt(xs[k]).exc, <<>>)

\* NumericProcessor.validate
Numeric_validate(data) ==
    IF ~Iterable(data) THEN Raised(NotIterable(data), <<>>)
    ELSE Numeric_validate_loop(Elements(data), 1)

IsNumeric(v) == v.t \in {"int", "bool", "float"}

\* a + b of the running sum a and the element b
Plus(a, b) ==
    IF a.t = "float" \/ b.t = "float"
    THEN PyFloat((IF a.t = "float" THEN a.n ELSE a.n * 1000)
                 + (IF b.t = "float" THEN b.n ELSE b.n * 1000))
    ELSE PyInt(a.n + b.n)

RECURSIVE Sum_loop(_, _, _)
\* sum(data): 0 + data[0] + data[1] + ...
Sum_loop(acc, xs, k) ==
    IF k > Len(xs) THEN Returned(acc, <<>>)
    ELSE IF ~IsNumeric(xs[k])
    THEN Raised(Exc("TypeError",
                    "unsupported operand type(s) for +: '" \o acc.t \o "' and '"
                        \o xs[k].t \o "'"), <<>>)
    ELSE Sum_loop(Plus(acc, xs[k]), xs, k + 1)

Sum(data) == Sum_loop(PyInt(0), Elements(data), 1)

\* total / count of a number and a length (the quotient in thousandths; it
\* is exact for the payloads used, whose means have at most three decimals)
Mean(total, count) ==
    IF count = 0
    THEN Raised(Exc("ZeroDivisionError",
                    IF total.t = "float" THEN "float division by zero"
                    ELSE "division by zero"), <<>>)
    ELSE Returned(PyFloat((IF total.t = "float" THEN total.n ELSE total.n * 1000)
                          \div count), <<>>)

\* f" {len(data)} {sum(data)} {sum(data)/len(data)}"
Numeric_encoding(data, total, mean) ==
    IF ~total.ok THEN Raised(total.exc, <<>>)
    ELSE IF ~mean.ok THEN Raised(mean.exc, <<>>)
    ELSE Returned(PyStr(" " \o NatToStr(Len(Elements(data))) \o " "
                        \o Str(total.val) \o " " \o Str(mean.val)), <<>>)

\* the two branches of process, by what validate gave
Numeric_process_ends(data, valid) ==
    IF ~valid.ok THEN Raised(valid.exc, <<>>)
    ELSE IF valid.val = PyBool(TRUE)
    THEN Numeric_encoding(data, Sum(data),
            IF Sum(data).ok THEN Mean(Sum(data).val, Len(Elements(data)))
            ELSE Sum(data))
    ELSE Returned(PyStr("Numeric data not verified because of Incorrect data type"),
                  <<"Processing data:  invalid input">>)

\* NumericProcessor.process
Numeric_process(data) == Numeric_process_ends(data, Numeric_validate(data))

\* NumericProcessor.format_output
Numeric_format_output(result) ==
    IF result.t # "str" THEN Raised(NoAttribute(result, "split"), <<>>)
    ELSE IF Len(Words(result.s)) < 3
    THEN Raised(Exc("IndexError", "list index out of range"), <<>>)
    ELSE Returned(PyStr("Processed " \o Words(result.s)[1] \o " numeric values, sum="
                        \o Words(result.s)[2] \o ", avg=" \o Words(result.s)[3]),
                  <<>>)

\* the elements payloads are made of: numbers, text that converts and text
\* that does not, and values int() does not take
NumericElements ==
    {PyInt(1), PyInt(4), PyFloat(2500), PyBool(TRUE), PyStr("7"), PyStr("abc"),
     PyNone, PyList(<<PyInt(1)>>)}

\* the payloads handed to the numeric processor: the lists of the driver,
\* lists of up to two elements, a text and a number
NumericPayloads ==
    {PyList(<<PyInt(1), PyInt(2), PyInt(3), PyInt(4), PyInt(5)>>),
     PyList(<<PyInt(2), PyInt(2), PyInt(2)>>),
     PyStr("12"), PyInt(5)}
        \cup {PyList(xs) : xs \in ShortBatches(NumericElements)}

InitFoundation ==
    /\ streams = <<>>
    /\ calls = <<[returned |-> 0, raised |-> 0]>>
    /\ pipes = NoNames
    /\ manager = NoNames
    /\ last = NoStreamCall

\* the end of a call on the numeric processor: the call counted and observed
NumericCallEnds(op, data, r) ==
    /\ calls' = [calls EXCEPT ![1] = IF r.ok THEN [@ EXCEPT !.returned = @ + 1]
                                     ELSE [@ EXCEPT !.raised = @ + 1]]
    /\ last' = StreamObserved(op, 1, data, PyNone, r)
    /\ UNCHANGED <<streams, pipes, manager>>

\* num.validate(data)
NumericValidate(data) ==
    /\ StreamCallsMade < MaxCalls
    /\ NumericCallEnds("validate", data, Numeric_validate(data))

\* i = num.process(data)
NumericProcess(data) ==
    /\ StreamCallsMade < MaxCalls
    /\ NumericCallEnds("process", data, Numeric_process(data))

\* num.format_output(i) of the result process just returned
NumericFormatOutput ==
    /\ StreamCallsMade < MaxCalls
    /\ last.op = "process" /\ last.outcome = "returned"
    /\ NumericCallEnds("format_output", last.data, Numeric_format_output(last.val))

NextFoundation ==
    \/ \E data \in NumericPayloads : NumericValidate(data)
    \/ \E data \in NumericPayloads : NumericProcess(data)
    \/ NumericFormatOutput

SpecFoundation == InitFoundation /\ [][NextFoundation]_vars


(***************************************************************************)
(* Processor Foundation: properties of the numeric processor               *)
(***************************************************************************)
\* every element of the payload converts to an integer
AllConvert(data) ==
    Iterable(data) /\ \A k \in DOMAIN Elements(data) : ToInt(Elements(data)[k]).ok

\* the payload holds an element that does not convert to an integer
SomeDoesNotConvert(data) ==
    Iterable(data) /\ \E k \in DOMAIN Elements(data) : ~ToInt(Elements(data)[k]).ok

\* C17: validate of the numeric processor returns true only if every element
\* of the payload converts to an integer; for a payload holding an element
\* that does not convert (text that is no number, None, a nested list)
\* validate returns false and no failure leaves it, and process returns
\* "Numeric data not verified because of Incorrect data type".
C17_InvalidPayloadIsRefusedQuietly ==
    /\ (last.op = "validate" /\ last.val = PyBool(TRUE)) => AllConvert(last.data)
    /\ (last.op = "validate" /\ SomeDoesNotConvert(last.data)) =>
          last.outcome = "returned" /\ last.val = PyBool(FALSE)
    /\ (last.op = "process" /\ SomeDoesNotConvert(last.data)) =>
          /\ last.outcome = "returned"
          /\ last.val = PyStr("Numeric data not verified because of Incorrect data type")

\* validate accepts the payload
Accepted(data) == Numeric_validate(data) = Returned(PyBool(TRUE), <<>>)

\* C18: for a payload that validate accepts, the empty list and lists of
\* text that converts to integers included, process returns the count, the
\* sum and the mean of the payload joined by spaces, and format_output of
\* that result is "Processed N numeric values, sum=S, avg=A", N being the
\* count and S the sum of the payload.
C18_AcceptedPayloadIsSummarised ==
    /\ (last.op = "process" /\ Accepted(last.data)) =>
          /\ last.outcome = "returned"
          /\ Len(Words(last.val.s)) = 3
          /\ Words(last.val.s)[1] = NatToStr(Len(Elements(last.data)))
          /\ Words(last.val.s)[2] = Str(Sum(last.data).val)
    /\ (last.op = "format_output" /\ Accepted(last.data)) =>
          /\ last.outcome = "returned"
          /\ last.val = PyStr("Processed " \o NatToStr(Len(Elements(last.data)))
                              \o " numeric values, sum=" \o Str(Sum(last.data).val)
                              \o ", avg="
                              \o Str(Mean(Sum(last.data).val,
                                          Len(Elements(last.data))).val))


(***************************************************************************)
(* The stream demos: what filter_data returns and leaves alone             *)
(***************************************************************************)
\* the batches a stream is given before its filter is tried: one item each
SingleBatches(prog, cls) == {<<a>> : a \in Items(prog, cls)}

\* the batches handed to filter_data: all the items, or all but one, in
\* every order
PartBatches(prog, cls) ==
    UNION {Orderings(Items(prog, cls) \ {a}) : a \in Items(prog, cls)}
        \cup Orderings(Items(prog, cls))

\* one stream object, its batches processed an item at a time and filtered
\* in part and in whole
NextFilters ==
    \/ \E i \in DOMAIN streams :
          \E data_batch \in SingleBatches(streams[i].prog, streams[i].cls) :
             ProcessBatch(i, data_batch)
    \/ \E i \in DOMAIN streams :
          \E data_batch \in PartBatches(streams[i].prog, streams[i].cls),
             criteria \in Criteria(streams[i].prog, streams[i].cls) :
             FilterData(i, data_batch, criteria)

SpecFilters == InitStreams /\ [][NextFilters]_vars

\* the items of xs at the positions S, in the order of xs
ItemsAt(xs, S) == [k \in 1..Cardinality(S) |-> xs[NthOf(S, k)]]

\* sub is xs with some items left out, the order kept
IsSubsequence(sub, xs) == \E S \in SUBSET DOMAIN xs : sub = ItemsAt(xs, S)

\* C19: in Stream Processor Demo A, Stream Foundation Demo B and Stream
\* Processor Demo B, a filter_data call that returns yields a list of items of
\* the batch in the order of the batch, the whole batch when no criteria is
\* given, and leaves every field of the stream as it was.
C19_FilterKeepsOrderAndState ==
    \A i \in DOMAIN streams :
        (/\ streams[i].prog \in {"A", "FB", "PB"}
         /\ last.op = "filter_data" /\ last.obj = i
         /\ last.outcome = "returned") =>
            /\ last.val.t = "list"
            /\ IsSubsequence(last.val.items, last.data)
            /\ last.criteria = PyNone => last.val.items = last.data
            /\ streams[i] = last.pre[i]

\* an event stream of Demo A that had processed a batch was asked for the
\* errors of a batch and kept two of its three items in their order, its
\* counters and history as before
C19_Witness ==
    /\ streams[1].prog = "A" /\ streams[1].cls = "EventStream"
    /\ last.op = "filter_data"
    /\ last.criteria = PyStr("errors only")
    /\ last.data = <<PyStr("error"), PyStr("login"), PyStr(" ERROR ")>>
    /\ last.val = PyList(<<PyStr("error"), PyStr(" ERROR ")>>)
    /\ streams[1].data_history = <<PyStr("login")>>
    /\ streams[1] = last.pre[1]


(***************************************************************************)
(* Pipeline Demo Revision 1: the counters a process call changes           *)
(***************************************************************************)
\* C20: every process call on an adapter of Pipeline Demo Revision 1 changes
\* exactly one of the two counters of stats: a call that returns adds 1 to the
\* processed count and leaves the error count, a call that raises changes the
\* error count and leaves the processed count; no call changes both.
C20_OneCounterPerCall ==
    /\ (last.op = "process" /\ last.outcome = "returned") =>
          /\ StatsAfter.processed = NumAdd(StatsBefore.processed, IntLit(1))
          /\ StatsAfter.errors = StatsBefore.errors
    /\ (last.op = "process" /\ last.outcome = "raised") =>
          /\ StatsAfter.errors # StatsBefore.errors
          /\ StatsAfter.processed = StatsBefore.processed


(***************************************************************************)
(* Stream Processor Demo A: the counters and the success rate              *)
(***************************************************************************)
\* C21: for every stream of Stream Processor Demo A, after any sequence of
\* process_batch calls, the error count is at most the total-processed count,
\* and so the success rate that get_stats reports (kept in thousandths) lies
\* between 0 and 100 inclusive.
C21_SuccessRateWithinBounds ==
    \A i \in DOMAIN streams :
        IsDemoA(streams[i]) =>
            /\ streams[i].error_count <= streams[i].total_processed
            /\ (last.op = "get_stats" /\ last.obj = i /\ last.outcome = "returned") =>
                  /\ DictGet(last.val, "success_rate").n >= 0
                  /\ DictGet(last.val, "success_rate").n <= 100 * 1000


(***************************************************************************)
(* Stream Processor Demo A: what a failed batch leaves behind              *)
(***************************************************************************)
\* the items of the batches of failures: those of the stream demos and, for
\* the sensor stream, an item whose second field is malformed
FailureItems(cls) ==
    Items("A", cls)
        \cup (IF cls = "SensorStream" THEN {PyStr("temp:30.0, humidity:wet")}
              ELSE {})

\* one stream object of Stream Processor Demo A
InitDemoA ==
    /\ \E cls \in StreamClasses : streams = <<NewStream("A", cls, "STREAM_001")>>
    /\ calls = <<[returned |-> 0, raised |-> 0]>>
    /\ pipes = NoNames
    /\ manager = NoNames
    /\ last = NoStreamCall

NextDemoA ==
    \E i \in DOMAIN streams :
        \E data_batch \in ShortBatches(FailureItems(streams[i].cls)) :
            ProcessBatch(i, data_batch)

SpecDemoA == InitDemoA /\ [][NextDemoA]_vars

\* the last call was a process_batch call on stream i of Demo A that ended
\* in an error and returned its message
FailedBatch(i) ==
    /\ IsDemoA(streams[i])
    /\ last.op = "process_batch" /\ last.obj = i
    /\ IsErrorResult(last.val)

\* the positions of the batch up to which the stream fails
FailingUpTo(self, data_batch) ==
    {k \in 1..Len(data_batch) :
        IsErrorResult(A_process_batch(self, SubSeq(data_batch, 1, k)).val)}

\* the position of the malformed item: the first the stream fails at
FirstFailing(self, data_batch) ==
    CHOOSE k \in FailingUpTo(self, data_batch) :
        \A j \in FailingUpTo(self, data_batch) : k <= j

\* the stream after it processed the items before the malformed one
AfterLeadingItems(self, data_batch) ==
    A_process_batch(self, SubSeq(data_batch, 1, FirstFailing(self, data_batch) - 1)).self

\* C22 as stated: a process_batch call of Stream Processor Demo A that ends
\* in an error changes nothing but the error count; the total-processed
\* count, the history, the accumulators and the net flow are as before the
\* call.
C22_FailedBatchChangesOnlyErrorCount ==
    \A i \in DOMAIN streams :
        FailedBatch(i) =>
            streams[i] = [last.pre[i] EXCEPT !.error_count = @ + 1]

\* the reading lists of a sensor stream
ReadingLists == {"temperature_readings", "humidity_readings", "pressure_readings"}

\* the stream with its reading lists and its history put aside
BesidesReadings(s) ==
    [s EXCEPT !.temperature_readings = <<>>, !.humidity_readings = <<>>,
              !.pressure_readings = <<>>, !.data_history = <<>>]

\* C22 as amended: a process_batch call of Stream Processor Demo A that ends
\* in an error adds exactly 1 to the error count and leaves the
\* total-processed count as it was; the operation lists, the net flow and the
\* event tallies are those the items before the malformed one produce, each
\* reading list is the one those items produce with at most the one reading
\* of the malformed item that parsed before its failing field, and the
\* history gains a leading part of the batch that reaches the malformed item.
C22_FailedBatchKeepsItsLeadingItems ==
    \A i \in DOMAIN streams :
        FailedBatch(i) =>
            /\ BesidesReadings(streams[i]) =
                  BesidesReadings(
                      [AfterLeadingItems(last.pre[i], last.data) EXCEPT
                          !.total_processed = last.pre[i].total_processed,
                          !.error_count = last.pre[i].error_count + 1])
            /\ \A f \in ReadingLists :
                  /\ IsPrefix(AfterLeadingItems(last.pre[i], last.data)[f],
                              streams[i][f])
                  /\ Len(streams[i][f])
                        <= Len(AfterLeadingItems(last.pre[i], last.data)[f]) + 1
            /\ IsPrefix(AfterLeadingItems(last.pre[i], last.data).data_history
                            \o <<last.data[FirstFailing(last.pre[i], last.data)]>>,
                        streams[i].data_history)
            /\ IsPrefix(streams[i].data_history,
                        last.pre[i].data_history \o last.data)

\* a sensor stream that had processed one reading was given a reading of
\* 37.5 followed by an item whose temperature parses and whose humidity does
\* not: the error is counted, the processed count stays 1, and the
\* temperatures of both items are recorded
C22_Witness ==
    /\ IsDemoA(streams[1]) /\ streams[1].cls = "SensorStream"
    /\ FailedBatch(1)
    /\ last.data = <<PyStr("temp:37.5"), PyStr("temp:30.0, humidity:wet")>>
    /\ last.pre[1].temperature_readings = <<22500>>
    /\ streams[1].temperature_readings = <<22500, 37500, 30000>>
    /\ streams[1].humidity_readings = last.pre[1].humidity_readings
    /\ streams[1].total_processed = 1
    /\ streams[1].error_count = 1
    /\ Len(streams[1].data_history) = 3


(***************************************************************************)
(* Stream Foundation Demo B: the batch count of the sensor stream          *)
(***************************************************************************)
IsFoundationBSensor(s) == s.prog = "FB" /\ s.cls = "SensorStream"

\* C23: on the sensor stream of Stream Foundation Demo B the batch count,
\* the divisor of the average temperature, goes up by 1 exactly in the
\* process_batch calls that return a summary; a call that ends in a swallowed
\* error, a call with an empty batch included, adds 1 to the error counter
\* only and leaves the batch count and the stored average as they were, so no
\* call raises both the batch count and the error counter.
C23_BatchCountedOnlyWithSummary ==
    \A i \in DOMAIN streams :
        (/\ IsFoundationBSensor(streams[i])
         /\ last.op = "process_batch" /\ last.obj = i) =>
            /\ last.outcome = "returned"
            /\ last.val.t = "str" =>
                  /\ streams[i].total_processed = last.pre[i].total_processed + 1
                  /\ streams[i].err = last.pre[i].err
            /\ last.val = PyNone =>
                  /\ streams[i].err = last.pre[i].err + 1
                  /\ streams[i].total_processed = last.pre[i].total_processed
                  /\ streams[i].avg = last.pre[i].avg

====
